---- MODULE Spec2Model ----
(***************************************************************************)
(* Model of the analytics core of mcp-eia: the storage opportunity scorer  *)
(* (EnergyStorageAnalyzer), the capacity aggregators (CapacityAnalyzer),   *)
(* the trend classifier (getTrend) and the region ranker                   *)
(* (findHighPotentialEnergyStorageAreas.execute).                          *)
(*                                                                         *)
(* Numbers.  JavaScript numbers are modelled as exact fixed-point values:  *)
(*   capacities      integers counting 1/CapScale MW,                      *)
(*   hourly demand   integer MW,                                           *)
(*   prices          integer cents per kWh,                                *)
(*   x.toFixed(3)    an integer count of thousandths, x.toFixed(2) of      *)
(*                   hundredths, x.toFixed(4) of ten-thousandths,          *)
(*   Math.round(x)   an integer.                                           *)
(* null/undefined is the value Null and the IEEE value NaN is the value    *)
(* NaN; both lie outside every numeric range the model uses, and every     *)
(* operator that can meet them tests for them before doing arithmetic.     *)
(***************************************************************************)
EXTENDS Integers, Sequences, FiniteSets, TLC

VARIABLES
    fn,      \* name of the function the harness has called ("none" before the call)
    args,    \* the arguments of that call
    ret,     \* the value it returned (NoRet before the call)
    regions,                \* args.regions of the tool call
    includeHourlyAnalysis,  \* args.includeHourlyAnalysis
    extraArgsApiKey,        \* context.extraArgs.apiKey ("" when absent)
    configEiaApiKey,        \* config.eiaApiKey ("" when absent)
    toolState,              \* "idle", "running", "returned" or "rejected"
    toolError,              \* message of the UserError the call rejected with
    fetch,                  \* per region position and data category, the state of the request
    results,                \* per region position, the promise of the region's async task
    analyzeCalls,           \* capacityData of every analyzeStorageOpportunity call made
    output,                 \* the object the tool serialises and returns
    hung,                   \* the request that never settles, or NoHung
    resources,      \* ResourceManager.resources: the entries in insertion order
    cleanupTimer,   \* TRUE while the interval timer of the ResourceManager is set
    clock,          \* Date.now()
    calls,          \* per tool call, its position, API keys, client and error
    sweep,          \* the position of the running cleanupInactiveResources
    factoryCalls,   \* per cache key, how often factoryFn has been invoked
    cleanups,       \* the invocations of cleanupFn so far
    removed,        \* the entries cleanupInactiveResources has deleted
    requests,       \* the EIA requests issued so far
    process         \* "running", or the exit code and the cache at process.exit

harnessVars == <<fn, args, ret>>

rankerVars == <<regions, includeHourlyAnalysis, extraArgsApiKey, configEiaApiKey,
                toolState, toolError, fetch, results, analyzeCalls, output, hung>>

managerVars == <<resources, cleanupTimer, clock, calls, sweep, factoryCalls,
                 cleanups, removed, requests, process>>

vars == <<fn, args, ret, regions, includeHourlyAnalysis, extraArgsApiKey,
          configEiaApiKey, toolState, toolError, fetch, results, analyzeCalls,
          output, hung, resources, cleanupTimer, clock, calls, sweep,
          factoryCalls, cleanups, removed, requests, process>>

\* ------------------------------------------------------------------------
\* Encodings of the non-numeric number values
\* ------------------------------------------------------------------------
Null == -1000001

NaN == -1000002

NoRet == [none |-> TRUE]

NoHung == <<0, "none">>

\* no tool call is in progress
RankerIdle ==
    /\ regions = <<>>
    /\ includeHourlyAnalysis = FALSE
    /\ extraArgsApiKey = ""
    /\ configEiaApiKey = ""
    /\ toolState = "idle"
    /\ toolError = ""
    /\ fetch = <<>>
    /\ results = <<>>
    /\ analyzeCalls = {}
    /\ output = NoRet
    /\ hung = NoHung

\* no cleanupInactiveResources is running
SweepIdle == [pc |-> "idle"]

Running == [state |-> "running"]

\* the ResourceManager is not used
ManagerIdle ==
    /\ resources = <<>>
    /\ cleanupTimer = FALSE
    /\ clock = 0
    /\ calls = <<>>
    /\ sweep = SweepIdle
    /\ factoryCalls = <<>>
    /\ cleanups = {}
    /\ removed = {}
    /\ requests = {}
    /\ process = Running

\* the function harness is not used
HarnessIdle ==
    /\ fn = "none"
    /\ args = NoRet
    /\ ret = NoRet

\* ------------------------------------------------------------------------
\* Bounds of the model
\* ------------------------------------------------------------------------
MaxCapRecords == 2

MaxHours == 3

MaxPrices == 2

MaxGenRecords == 2

\* longest regions array of a tool call
MaxRegions == 2

\* longest array of settled region results handed to the result assembly
MaxSettled == 3

\* longest value array handed to basicStats and to the economic estimator
MaxStatValues == 3

\* longest hourly array handed to the grid-stability estimator on its own
MaxStabilityHours == 7

\* longest generation array handed to summarizeGeneration
MaxSummaryRecords == 2

\* longest array of plant records (operating generator capacity)
MaxPlantRecords == 2

\* most calls of the aggregators and the scorer on one set of input arrays
MaxCalls == 3

\* most tool calls that use the ResourceManager
MaxToolCalls == 2

\* latest value of the clock
MaxClock == 2

\* most scored regions handed to the summary when its drivers are examined
MaxScored == 1

\* capacities are counted in 1/CapScale MW
CapScale == 2

\* ------------------------------------------------------------------------
\* Generic helpers
\* ------------------------------------------------------------------------
BoundedSeq(S, n) == UNION {[1..k -> S] : k \in 0..n}

Max(a, b) == IF a >= b THEN a ELSE b

Min(a, b) == IF a <= b THEN a ELSE b

Abs(x) == IF x < 0 THEN 0 - x ELSE x

RECURSIVE SumSeq(_)
SumSeq(s) == IF Len(s) = 0 THEN 0 ELSE Head(s) + SumSeq(Tail(s))

RECURSIVE MaxSeq(_)
MaxSeq(s) == IF Len(s) = 1 THEN s[1] ELSE Max(Head(s), MaxSeq(Tail(s)))

RECURSIVE MinSeq(_)
MinSeq(s) == IF Len(s) = 1 THEN s[1] ELSE Min(Head(s), MinSeq(Tail(s)))

RECURSIVE Gcd(_, _)
Gcd(a, b) == IF b = 0 THEN a ELSE Gcd(b, a % b)

RECURSIVE GcdSeq(_)
GcdSeq(s) == IF Len(s) = 0 THEN 0 ELSE Gcd(Abs(Head(s)), GcdSeq(Tail(s)))

\* Math.round(n / d) for d > 0: the nearest integer, halves rounded up
MathRound(n, d) == (2 * n + d) \div (2 * d)

\* parseFloat((n / d).toFixed(k)) counted in units of 10^-k, for the scaled
\* numerator n = value * 10^k and d # 0: nearest, halves away from zero
ToFixed(n, d) ==
    LET nn == IF d < 0 THEN 0 - n ELSE n
        dd == Abs(d)
    IN IF nn >= 0 THEN (2 * nn + dd) \div (2 * dd)
       ELSE 0 - ((2 * (0 - nn) + dd) \div (2 * dd))

\* floor(sqrt(w)) by bisection on lo <= sqrt(w) < hi
RECURSIVE ISqrtIn(_, _, _)
ISqrtIn(w, lo, hi) ==
    IF hi - lo <= 1 THEN lo
    ELSE LET mid == (lo + hi) \div 2
         IN IF mid * mid <= w THEN ISqrtIn(w, mid, hi) ELSE ISqrtIn(w, lo, mid)

ISqrt(w) == ISqrtIn(w, 0, 46340)

\* x || 0 on a number-or-null value
OrZero(x) == IF x = Null \/ x = NaN THEN 0 ELSE x

\* Math.sqrt(variance) / avg of a numeric series with non-zero sum, in
\* thousandths (toFixed(3)).  With n = Len(series), S the sum and
\* Q = SUM (n*d - S)^2 the magnitude is sqrt(Q / (n * S^2)); the thousandths
\* k satisfy (2k-1)^2 <= 4*10^6*Q/(n*S^2) < (2k+1)^2, and the sign is that
\* of the mean.  The ratio does not change when every value is divided by a
\* common factor, which keeps the squares inside TLC's 32-bit integers.
RECURSIVE SumSqDev(_, _, _)
SumSqDev(s, n, S) ==
    IF Len(s) = 0 THEN 0
    ELSE (n * Head(s) - S) * (n * Head(s) - S) + SumSqDev(Tail(s), n, S)

StdDevOverAvgMilli(series) ==
    LET g == GcdSeq(series)
        red == [i \in 1..Len(series) |-> series[i] \div g]
        n == Len(red)
        S == SumSeq(red)
        Q == SumSqDev(red, n, S)
        D == n * S * S
        A == 4000 * Q
        W == (A \div D) * 1000 + ((A % D) * 1000) \div D
        k == (ISqrt(W) + 1) \div 2
    IN IF S < 0 THEN 0 - k ELSE k

\* Math.sqrt(variance) of a series, in thousandths: the variance is Q / n^3
StdDevMilli(series) ==
    LET n == Len(series)
        S == SumSeq(series)
        Q == SumSqDev(series, n, S)
        D == n * n * n
        A == 4000 * Q
        W == (A \div D) * 1000 + ((A % D) * 1000) \div D
    IN (ISqrt(W) + 1) \div 2

\* ------------------------------------------------------------------------
\* EnergyStorageAnalyzer (analysis/energyStorageAnalyzer.ts)
\* ------------------------------------------------------------------------
renewableSources == {"SUN", "WND", "HYD", "GEO", "BIO", "WAS"}

fossilSources == {"NG", "COL", "PET", "OTH"}

\* record['net-summer-capacity-mw'] || 0 of every record
SummerCaps(capacityData) ==
    [i \in 1..Len(capacityData) |-> OrZero(capacityData[i].summer)]

\* the same, keeping only the records whose fuel code is in codes
SummerCapsOf(capacityData, codes) ==
    [i \in 1..Len(capacityData) |->
        IF capacityData[i].energy_source_code \in codes
        THEN OrZero(capacityData[i].summer) ELSE 0]

RenewablePenetrationMutant(renewableCapacity, totalCapacity) ==
    IF totalCapacity > 0 THEN (renewableCapacity * 100) \div totalCapacity ELSE 0

RenewablePenetration(renewableCapacity, totalCapacity) ==
    IF totalCapacity > 0 THEN MathRound(renewableCapacity * 100, totalCapacity) ELSE 0

calculateGridCapacityMetrics(capacityData) ==
    LET totalCapacity == SumSeq(SummerCaps(capacityData))
        renewableCapacity == SumSeq(SummerCapsOf(capacityData, renewableSources))
        fossilCapacity == SumSeq(SummerCapsOf(capacityData, fossilSources))
    IN [totalCapacityMW |-> MathRound(totalCapacity, CapScale),
        renewableCapacityMW |-> MathRound(renewableCapacity, CapScale),
        fossilCapacityMW |-> MathRound(fossilCapacity, CapScale),
        renewablePenetration |-> RenewablePenetration(renewableCapacity, totalCapacity)]

\* demandData.map(finite number or null).filter(not null)
NumericSeries(demandData) ==
    LET vals == [i \in 1..Len(demandData) |-> demandData[i].value]
    IN SelectSeq(vals, LAMBDA v : v # Null /\ v # NaN)

GenerationFallbackMutant(generationData) ==
    LET totalGen == SumSeq([i \in 1..Len(generationData) |->
                                OrZero(generationData[i].generation)])
        denom == IF Len(generationData) = 0 THEN 1 ELSE Len(generationData)
    IN [averageDemandMW |-> MathRound(totalGen, denom),
        peakDemandMW |-> MathRound(totalGen * 12, denom * 10),
        minimumDemandMW |-> MathRound(totalGen * 6, denom * 10),
        loadFactor |-> 1000,
        demandVariabilityIndex |-> 0]

GenerationFallback(generationData) ==
    LET totalGen == SumSeq([i \in 1..Len(generationData) |->
                                OrZero(generationData[i].generation)])
        denom == IF Len(generationData) = 0 THEN 1 ELSE Len(generationData)
    IN [averageDemandMW |-> MathRound(totalGen, denom),
        peakDemandMW |-> MathRound(totalGen * 12, denom * 10),
        minimumDemandMW |-> MathRound(totalGen * 6, denom * 10),
        loadFactor |-> 700,
        demandVariabilityIndex |-> 150]

calculateDemandSupplyMetrics(demandData, generationData) ==
    LET series == NumericSeries(demandData)
    IN IF Len(demandData) = 0 THEN GenerationFallback(generationData)
       ELSE IF Len(series) = 0 THEN GenerationFallback(generationData)
       ELSE LET n == Len(series)
                S == SumSeq(series)
                peakDemand == MaxSeq(series)
                minDemand == MinSeq(series)
            IN [averageDemandMW |-> MathRound(S, n),
                peakDemandMW |-> peakDemand,
                minimumDemandMW |-> minDemand,
                loadFactor |-> ToFixed(S * 1000,
                                       n * (IF peakDemand = 0 THEN 1 ELSE peakDemand)),
                demandVariabilityIndex |->
                    IF S # 0 THEN StdDevOverAvgMilli(series) ELSE 0]

calculateRenewableMetrics(capacityData, generationData) ==
    LET solarCapacity == SumSeq(SummerCapsOf(capacityData, {"SUN"}))
        windCapacity == SumSeq(SummerCapsOf(capacityData, {"WND"}))
        totalRenewableCapacity == solarCapacity + windCapacity
        \* MW * 8760 * 0.35 * 0.03 = MW * 91.98
        spDen == solarCapacity + windCapacity + CapScale
    IN [solarCapacityMW |-> MathRound(solarCapacity, CapScale),
        windCapacityMW |-> MathRound(windCapacity, CapScale),
        estimatedCurtailmentMWh |-> MathRound(totalRenewableCapacity * 4599, 50 * CapScale),
        renewableVariabilityIndex |-> ToFixed(400 * spDen + 300 * solarCapacity, spDen),
        duckCurveSeverity |-> Min(ToFixed(2000 * solarCapacity, spDen), 1000)]

RampsMutant(series) == [i \in 1..(Len(series) - 1) |-> series[i + 1] - series[i]]

Ramps(series) == [i \in 1..(Len(series) - 1) |-> Abs(series[i + 1] - series[i])]

calculateGridStabilityMetrics(demandData) ==
    LET series == NumericSeries(demandData)
    IN IF Len(series) < 2
       THEN [maxHourlyRampMW |-> 500,
             rampingFrequency |-> 40,
             frequencyRegulationNeed |-> 100,
             spinningReserveRequirement |-> 300]
       ELSE LET ramps == Ramps(series)
                n == Len(series)
                S == SumSeq(series)
                maxRamp == MaxSeq(ramps)
                \* r > avgDemand * 0.05  <=>  20 * n * r > S
                significantRamps ==
                    Cardinality({i \in 1..Len(ramps) : 20 * n * ramps[i] > S})
            IN [maxHourlyRampMW |-> maxRamp,
                rampingFrequency |-> ToFixed(significantRamps * 240, n),
                frequencyRegulationNeed |-> MathRound(S, 100 * n),
                spinningReserveRequirement |-> MathRound(maxRamp, 2)]

\* priceStdDev / avgPrice, in thousandths; 0 / 0 is NaN
PriceVolatilityMutant(prices) ==
    IF SumSeq(prices) = 0 THEN 0 ELSE StdDevOverAvgMilli(prices)

PriceVolatility(prices) ==
    IF SumSeq(prices) = 0 THEN NaN ELSE StdDevOverAvgMilli(prices)

\* the result for an empty price array: 10 cents/kWh (in hundredths), 0.15
\* (in thousandths), 50 $/MWh, 50000 $/yr
EconomicDefaultsMutant ==
    [averageRetailPriceCentsPerKWh |-> 0,
     priceVolatilityIndex |-> 0,
     peakOffPeakSpread |-> 0,
     estimatedArbitrageRevenue |-> 0]

EconomicDefaults ==
    [averageRetailPriceCentsPerKWh |-> 1000,
     priceVolatilityIndex |-> 150,
     peakOffPeakSpread |-> 50,
     estimatedArbitrageRevenue |-> 50000]

\* parseFloat(avgPrice.toFixed(2)) for avgPrice = S / n, in hundredths
AveragePriceMutant(S, n) == (S * 100) \div n

AveragePrice(S, n) == ToFixed(S * 100, n)

calculateEconomicMetrics(priceData, demandSupply) ==
    IF Len(priceData) = 0
    THEN EconomicDefaults
    ELSE LET prices == [i \in 1..Len(priceData) |-> OrZero(priceData[i].price)]
             n == Len(prices)
             S == SumSeq(prices)
         IN [averageRetailPriceCentsPerKWh |-> AveragePrice(S, n),
             priceVolatilityIndex |-> PriceVolatility(prices),
             \* avgPrice * 0.5 * 10
             peakOffPeakSpread |-> MathRound(5 * S, n),
             \* peakOffPeakSpread * 4 * 300 * 0.85
             estimatedArbitrageRevenue |-> MathRound(5100 * S, n)]

\* Math.min(Math.max(x, 0), 100); both keep NaN
Clamp(x) == IF x = NaN THEN NaN ELSE Min(Max(x, 0), 100)

\* Math.round of the weighted sum of the four sub-scores
WeightedRound(ps, rs, gs, es) ==
    IF NaN \in {ps, rs, gs, es} THEN NaN
    ELSE MathRound(25 * ps + 35 * rs + 20 * gs + 20 * es, 100)

OverallOfMutant(ps, rs, gs, es) ==
    WeightedRound(Clamp(ps), Clamp(rs), Clamp(gs), Clamp(es))

OverallOf(ps, rs, gs, es) == WeightedRound(ps, rs, gs, es)

calculateOpportunityScores(gridCapacity, demandSupply, renewable, stability, economic) ==
    LET \* (1 - loadFactor) * 50 + demandVariabilityIndex * 200
        peakShavingScore ==
            MathRound((1000 - demandSupply.loadFactor)
                        + 4 * demandSupply.demandVariabilityIndex, 20)
        \* penetration * 0.5 + duck * 30 + min(curtailment / 10000, 1) * 20
        renewableScore ==
            MathRound(250 * gridCapacity.renewablePenetration
                        + 15 * renewable.duckCurveSeverity
                        + Min(renewable.estimatedCurtailmentMWh, 10000), 500)
        \* min(ramp/1000,1)*40 + min(freq/10,1)*30 + min(regulation/500,1)*30
        gridServicesScore ==
            MathRound(20 * Min(stability.maxHourlyRampMW, 1000)
                        + 150 * Min(stability.rampingFrequency, 100)
                        + 30 * Min(stability.frequencyRegulationNeed, 500), 500)
        \* min(price/20,1)*30 + volatility*100 + min(revenue/100000,1)*40
        economicScore ==
            IF economic.priceVolatilityIndex = NaN THEN NaN
            ELSE MathRound(75 * Min(economic.averageRetailPriceCentsPerKWh, 2000)
                            + 500 * economic.priceVolatilityIndex
                            + 2 * Min(economic.estimatedArbitrageRevenue, 100000), 5000)
        overallScore ==
            OverallOf(peakShavingScore, renewableScore, gridServicesScore, economicScore)
    IN [overall |-> Clamp(overallScore),
        peakShavingScore |-> Clamp(peakShavingScore),
        renewableIntegrationScore |-> Clamp(renewableScore),
        gridServicesScore |-> Clamp(gridServicesScore),
        economicScore |-> Clamp(economicScore)]

\* now is the value of new Date().toISOString() at the call
analyzeStorageOpportunityMutant(region, capacityData, demandData, generationData, priceData, now) ==
    [region |-> now, analysisDate |-> now]

analyzeStorageOpportunity(region, capacityData, demandData, generationData, priceData, now) ==
    LET gridCapacity == calculateGridCapacityMetrics(capacityData)
        demandSupply == calculateDemandSupplyMetrics(demandData, generationData)
        renewableIntegration == calculateRenewableMetrics(capacityData, generationData)
        gridStability == calculateGridStabilityMetrics(demandData)
        economicOpportunity == calculateEconomicMetrics(priceData, demandSupply)
    IN [region |-> region,
        analysisDate |-> now,
        gridCapacity |-> gridCapacity,
        demandSupplyMetrics |-> demandSupply,
        renewableIntegration |-> renewableIntegration,
        gridStability |-> gridStability,
        economicOpportunity |-> economicOpportunity,
        storageOpportunityScore |->
            calculateOpportunityScores(gridCapacity, demandSupply,
                renewableIntegration, gridStability, economicOpportunity)]

\* ------------------------------------------------------------------------
\* Inputs of the function harness
\* ------------------------------------------------------------------------
\* summer capacities in 1/CapScale MW: 0.5 MW, 1.5 MW, 8000 MW, 12000 MW
CapValues == {Null, 1, 3, 16000, 24000}

FuelCodes == {"SUN", "WND", "NG", "NUC"}

CapacityRecords == [energy_source_code : FuelCodes, summer : CapValues]

\* the capacity-by-fuel records the scorer is exercised on
ScorerCapacityRecords ==
    {[energy_source_code |-> "SUN", summer |-> 16000],
     [energy_source_code |-> "WND", summer |-> 16000],
     [energy_source_code |-> "NG", summer |-> 24000],
     [energy_source_code |-> "NUC", summer |-> 3]}

\* hourly demand values in MW
DemandValues == {Null, 1000, 3000}

DemandRecords == [value : DemandValues]

\* monthly retail prices in cents per kWh
PriceValues == {0, 10, 30}

PriceRecords == [price : PriceValues]

GenerationSample == <<[period |-> "2024-02", generation |-> 5000]>>

\* the generation arrays the scorer is exercised on
ScorerGenerationSamples ==
    {<<>>, GenerationSample,
     <<[period |-> "2024-02", generation |-> Null],
       [period |-> "2024-02", generation |-> 120000]>>}

\* values of new Date().toISOString()
Instants == {"2024-03-01T00:00:00.000Z", "2024-03-01T00:00:01.000Z"}

\* ------------------------------------------------------------------------
\* Harness: one call of a pure function on inputs drawn in Init
\* ------------------------------------------------------------------------
InitScorer ==
    /\ fn = "none"
    /\ ret = NoRet
    /\ RankerIdle
    /\ ManagerIdle
    /\ \E c \in BoundedSeq(ScorerCapacityRecords, MaxCapRecords) \ {<<>>},
          d \in BoundedSeq(DemandRecords, MaxHours),
          g \in ScorerGenerationSamples,
          p \in BoundedSeq(PriceRecords, MaxPrices) :
            args = [region |-> "TX", capacityData |-> c, demandData |-> d,
                    generationData |-> g, priceData |-> p]

CallAnalyzeStorageOpportunity ==
    /\ fn = "none"
    /\ fn' = "analyzeStorageOpportunity"
    /\ \E now \in Instants :
          ret' = analyzeStorageOpportunity(args.region, args.capacityData,
                     args.demandData, args.generationData, args.priceData, now)
    /\ UNCHANGED <<args, rankerVars, managerVars>>

NextScorer == CallAnalyzeStorageOpportunity

SpecScorer == InitScorer /\ [][NextScorer]_vars

InitGridCapacity ==
    /\ fn = "none"
    /\ ret = NoRet
    /\ RankerIdle
    /\ ManagerIdle
    /\ \E c \in BoundedSeq(CapacityRecords, MaxCapRecords) :
            args = [capacityData |-> c]

CallCalculateGridCapacityMetrics ==
    /\ fn = "none"
    /\ fn' = "calculateGridCapacityMetrics"
    /\ ret' = calculateGridCapacityMetrics(args.capacityData)
    /\ UNCHANGED <<args, rankerVars, managerVars>>

NextGridCapacity == CallCalculateGridCapacityMetrics

SpecGridCapacity == InitGridCapacity /\ [][NextGridCapacity]_vars

\* ------------------------------------------------------------------------
\* basicStats (index.ts) and the estimators called on their own
\* ------------------------------------------------------------------------
\* avg in hundredths, stddev and cov in thousandths
basicStats(values) ==
    IF Len(values) = 0 THEN [avg |-> 0, stddev |-> 0, cov |-> 0]
    ELSE [avg |-> ToFixed(SumSeq(values) * 100, Len(values)),
          stddev |-> StdDevMilli(values),
          cov |-> IF SumSeq(values) # 0 THEN StdDevOverAvgMilli(values) ELSE 0]

\* prices in cents per kWh as basicStats receives them (p.price ?? 0)
StatValues == {0, 10, 31}

\* hourly values in MW, with the anomalous zero and negative readings
EstimatorDemandValues == {Null, -1000, 0, 1000, 3000}

EstimatorPriceValues == {Null, 0, 10, 31}

\* demandSupply arguments of the economic estimator
DemandSupplySamples ==
    {calculateDemandSupplyMetrics(<<>>, GenerationSample),
     calculateDemandSupplyMetrics(<<[value |-> 1000], [value |-> 3000]>>, <<>>)}

InitEstimators ==
    /\ fn = "none"
    /\ ret = NoRet
    /\ RankerIdle
    /\ ManagerIdle
    /\ \/ \E v \in BoundedSeq(StatValues, MaxStatValues) :
            args = [call |-> "basicStats", values |-> v]
       \/ \E d \in BoundedSeq([value : EstimatorDemandValues], MaxHours),
             g \in {<<>>, GenerationSample} :
            args = [call |-> "calculateDemandSupplyMetrics",
                    demandData |-> d, generationData |-> g]
       \/ \E p \in BoundedSeq([price : EstimatorPriceValues], MaxStatValues),
             ds \in DemandSupplySamples :
            args = [call |-> "calculateEconomicMetrics",
                    priceData |-> p, demandSupply |-> ds]

CallBasicStats ==
    /\ fn = "none"
    /\ args.call = "basicStats"
    /\ fn' = "basicStats"
    /\ ret' = basicStats(args.values)
    /\ UNCHANGED <<args, rankerVars, managerVars>>

CallCalculateDemandSupplyMetrics ==
    /\ fn = "none"
    /\ args.call = "calculateDemandSupplyMetrics"
    /\ fn' = "calculateDemandSupplyMetrics"
    /\ ret' = calculateDemandSupplyMetrics(args.demandData, args.generationData)
    /\ UNCHANGED <<args, rankerVars, managerVars>>

CallCalculateEconomicMetrics ==
    /\ fn = "none"
    /\ args.call = "calculateEconomicMetrics"
    /\ fn' = "calculateEconomicMetrics"
    /\ ret' = calculateEconomicMetrics(args.priceData, args.demandSupply)
    /\ UNCHANGED <<args, rankerVars, managerVars>>

NextEstimators ==
    \/ CallBasicStats
    \/ CallCalculateDemandSupplyMetrics
    \/ CallCalculateEconomicMetrics

SpecEstimators == InitEstimators /\ [][NextEstimators]_vars

InitStability ==
    /\ fn = "none"
    /\ ret = NoRet
    /\ RankerIdle
    /\ ManagerIdle
    /\ \E d \in BoundedSeq(DemandRecords, MaxStabilityHours) :
            args = [demandData |-> d]

CallCalculateGridStabilityMetrics ==
    /\ fn = "none"
    /\ fn' = "calculateGridStabilityMetrics"
    /\ ret' = calculateGridStabilityMetrics(args.demandData)
    /\ UNCHANGED <<args, rankerVars, managerVars>>

NextStability == CallCalculateGridStabilityMetrics

SpecStability == InitStability /\ [][NextStability]_vars

\* ------------------------------------------------------------------------
\* Claims about the scorer
\* ------------------------------------------------------------------------
ScoreFields == {"overall", "peakShavingScore", "renewableIntegrationScore",
                "gridServicesScore", "economicScore"}

\* C1: every sub-score and the overall score returned by
\* analyzeStorageOpportunity on non-negative finite inputs is a number in
\* [0, 100].
C1_ScoresWithinRange ==
    fn = "analyzeStorageOpportunity" =>
        \A f \in ScoreFields :
            /\ ret.storageOpportunityScore[f] # NaN
            /\ ret.storageOpportunityScore[f] >= 0
            /\ ret.storageOpportunityScore[f] <= 100

\* C7: the overall score is the rounded and clamped weighted combination
\* 0.25/0.35/0.20/0.20 of the four sub-scores reported in the same result.
C7_OverallFromReportedScores ==
    (fn = "analyzeStorageOpportunity"
        /\ \A f \in ScoreFields : ret.storageOpportunityScore[f] # NaN) =>
        LET sc == ret.storageOpportunityScore
        IN sc.overall =
             Min(Max((2 * (25 * sc.peakShavingScore
                           + 35 * sc.renewableIntegrationScore
                           + 20 * sc.gridServicesScore
                           + 20 * sc.economicScore) + 100) \div 200, 0), 100)

\* ------------------------------------------------------------------------
\* Claims about calculateGridCapacityMetrics
\* ------------------------------------------------------------------------
\* sum of the summer capacities (null as 0) of the records with a code in codes
RECURSIVE CapacityOf(_, _)
CapacityOf(cd, codes) ==
    IF cd = <<>> THEN 0
    ELSE (IF Head(cd).energy_source_code \in codes /\ Head(cd).summer # Null
          THEN Head(cd).summer ELSE 0) + CapacityOf(Tail(cd), codes)

\* C8 (as amended): renewablePenetration is renewable / total * 100 rounded
\* to the nearest integer, computed from the unrounded sums; the renewable
\* sum takes only SUN, WND, HYD, GEO, BIO, WAS, the fossil sum only NG, COL,
\* PET, OTH, every code counts in the total, the three reported MW fields
\* are those sums rounded to the nearest integer, and with total 0 the
\* penetration is 0.
C8_RenewablePenetrationRounded ==
    fn = "calculateGridCapacityMetrics" =>
        LET total == CapacityOf(args.capacityData, FuelCodes)
            ren == CapacityOf(args.capacityData,
                              {"SUN", "WND", "HYD", "GEO", "BIO", "WAS"})
            fos == CapacityOf(args.capacityData, {"NG", "COL", "PET", "OTH"})
        IN /\ ren + fos <= total
           /\ total > 0 =>
                2 * Abs(ret.renewablePenetration * total - 100 * ren) <= total
           /\ total = 0 => ret.renewablePenetration = 0
           /\ 2 * Abs(ret.totalCapacityMW * CapScale - total) <= CapScale
           /\ 2 * Abs(ret.renewableCapacityMW * CapScale - ren) <= CapScale
           /\ 2 * Abs(ret.fossilCapacityMW * CapScale - fos) <= CapScale

\* C8 witness: a call with a fuel code outside both buckets, positive
\* renewable capacity and a penetration that had to be rounded.
C8_Witness ==
    /\ fn = "calculateGridCapacityMetrics"
    /\ \E i \in 1..Len(args.capacityData) :
          /\ args.capacityData[i].energy_source_code = "NUC"
          /\ args.capacityData[i].summer # Null
    /\ CapacityOf(args.capacityData, {"SUN", "WND"}) > 0
    /\ ret.renewablePenetration * CapacityOf(args.capacityData, FuelCodes)
          # 100 * CapacityOf(args.capacityData, {"SUN", "WND"})

\* C8 as stated: renewablePenetration is exactly renewable / total * 100.
C8_RenewablePenetrationExact ==
    (fn = "calculateGridCapacityMetrics"
        /\ CapacityOf(args.capacityData, FuelCodes) > 0) =>
        ret.renewablePenetration * CapacityOf(args.capacityData, FuelCodes)
            = 100 * CapacityOf(args.capacityData,
                               {"SUN", "WND", "HYD", "GEO", "BIO", "WAS"})

\* ------------------------------------------------------------------------
\* getTrend (index.ts)
\* ------------------------------------------------------------------------
\* trend inputs are counted in 1/TrendScale units
TrendScale == 10

\* one hundred times the deadband: absPrev > 0 ? absPrev * 0.01 : 1
TrendThreshold100Mutant(absPrev) == Max(absPrev, 100 * TrendScale)

TrendThreshold100(absPrev) == IF absPrev > 0 THEN absPrev ELSE 100 * TrendScale

getTrend(latest, previous) ==
    LET l == IF latest = Null THEN 0 ELSE latest
        p == IF previous = Null THEN 0 ELSE previous
        absPrev == Abs(p)
        delta == l - p
        threshold100 == TrendThreshold100(absPrev)
    IN IF 100 * delta > threshold100 THEN "up"
       ELSE IF 100 * delta < 0 - threshold100 THEN "down"
       ELSE "flat"

TrendValues == {Null, -1000, -506, -500, -5, 0, 5, 10, 11, 500, 505, 506,
                1000, 1005, 1010, 1011, 1020}

InitTrend ==
    /\ fn = "none"
    /\ ret = NoRet
    /\ RankerIdle
    /\ ManagerIdle
    /\ \E l \in TrendValues, p \in TrendValues :
            args = [latest |-> l, previous |-> p]

CallGetTrend ==
    /\ fn = "none"
    /\ fn' = "getTrend"
    /\ ret' = getTrend(args.latest, args.previous)
    /\ UNCHANGED <<args, rankerVars, managerVars>>

NextTrend == CallGetTrend

SpecTrend == InitTrend /\ [][NextTrend]_vars

\* the arguments of the call with null read as 0
TrendLatest == IF args.latest = Null THEN 0 ELSE args.latest

TrendPrevious == IF args.previous = Null THEN 0 ELSE args.previous

\* C9 (as amended): getTrend is total; with delta = latest - previous and
\* threshold = |previous| * 0.01 when previous is not 0 and 1 when it is 0,
\* it returns "up" exactly when delta > threshold, "down" exactly when
\* delta < -threshold and "flat" otherwise.
C9_TrendDeadband ==
    fn = "getTrend" =>
        LET d == TrendLatest - TrendPrevious
            over(x) == IF TrendPrevious = 0 THEN x > TrendScale
                       ELSE 100 * x > Abs(TrendPrevious)
        IN /\ ret \in {"up", "down", "flat"}
           /\ ret = "up" <=> over(d)
           /\ ret = "down" <=> over(0 - d)

\* C9 witness: previous is 50.0, latest 50.6; the change of 0.6 exceeds 1%
\* of previous although it is below 1 unit, and the result is "up".
C9_Witness ==
    /\ fn = "getTrend"
    /\ args = [latest |-> 506, previous |-> 500]
    /\ ret = "up"

\* C9 as stated: the threshold is max(|previous| * 0.01, 1).
C9_TrendDeadbandMax ==
    fn = "getTrend" =>
        LET d == TrendLatest - TrendPrevious
            over(x) == 100 * x > Abs(TrendPrevious) /\ x > TrendScale
        IN /\ ret \in {"up", "down", "flat"}
           /\ ret = "up" <=> over(d)
           /\ ret = "down" <=> over(0 - d)

\* ------------------------------------------------------------------------
\* CapacityAnalyzer.calculateCapacityUtilization (analysis/capacityAnalyzer.ts)
\* ------------------------------------------------------------------------
\* generationData.filter(d => d.period === generationData[0].period)
LatestPeriodDataMutant(data) == data

LatestPeriodData(data) == SelectSeq(data, LAMBDA d : d.period = data[1].period)

\* utilization ? parseFloat(utilization.toFixed(4)) : null, where utilization
\* is totalGenerationMWh / potentialGenerationMWh and is falsy when it is 0.
\* potentialGenerationMWh = (capacity / CapScale) * 30.4375 * 24
\*                        = capacity * 1461 / (2 * CapScale).
RoundedUtilizationMutant(totalGenerationMWh, capacity) ==
    ToFixed(10000 * totalGenerationMWh * 2 * CapScale, capacity * 1461)

RoundedUtilization(totalGenerationMWh, capacity) ==
    IF totalGenerationMWh = 0 THEN Null
    ELSE ToFixed(10000 * totalGenerationMWh * 2 * CapScale, capacity * 1461)

calculateCapacityUtilization(capacityMetrics, generationData) ==
    IF Len(generationData) = 0 \/ capacityMetrics.totalSummerCapacityMW <= 0
    THEN [utilization |-> Null, totalGenerationGWh |-> 0, totalConsumptionGWh |-> 0]
    ELSE LET latestGenerationData == LatestPeriodData(generationData)
             totalGenerationMWh ==
                 SumSeq([i \in 1..Len(latestGenerationData) |->
                            IF latestGenerationData[i].generation = Null THEN 0
                            ELSE latestGenerationData[i].generation])
             totalConsumptionMWh ==
                 SumSeq([i \in 1..Len(latestGenerationData) |->
                            IF latestGenerationData[i].consumption = Null THEN 0
                            ELSE latestGenerationData[i].consumption])
             \* capacity > 0 here, so potentialGenerationMWh > 0
         IN [utilization |->
                RoundedUtilization(totalGenerationMWh,
                                   capacityMetrics.totalSummerCapacityMW),
             \* (MWh / 1000).toFixed(3), in thousandths of a GWh
             totalGenerationGWh |-> ToFixed(totalGenerationMWh * 1000, 1000),
             totalConsumptionGWh |-> ToFixed(totalConsumptionMWh * 1000, 1000)]

\* total summer capacities in 1/CapScale MW: -1 MW, 0, 0.5 MW, 1 MW, 100 MW
UtilizationCapacities == {-2, 0, 1, 2, 200}

\* monthly generation in MWh; 1 MW running a whole average month gives 730.5
GenerationValues == {Null, 0, 365, 731}

GenerationRecords ==
    [period : {"2024-02", "2024-01"}, generation : GenerationValues,
     consumption : {Null, 500}]

\* the repository requests the records sorted by period, newest first
SortedDesc(data) ==
    \A i \in 1..(Len(data) - 1) :
        ~(data[i].period = "2024-01" /\ data[i + 1].period = "2024-02")

InitUtilization ==
    /\ fn = "none"
    /\ ret = NoRet
    /\ RankerIdle
    /\ ManagerIdle
    /\ \E c \in UtilizationCapacities,
          g \in BoundedSeq(GenerationRecords, MaxGenRecords) :
            /\ SortedDesc(g)
            /\ args = [capacityMetrics |->
                          [region |-> "TX", latestPeriod |-> "2024-02",
                           totalSummerCapacityMW |-> c, totalWinterCapacityMW |-> c],
                       generationData |-> g]

CallCalculateCapacityUtilization ==
    /\ fn = "none"
    /\ fn' = "calculateCapacityUtilization"
    /\ ret' = calculateCapacityUtilization(args.capacityMetrics, args.generationData)
    /\ UNCHANGED <<args, rankerVars, managerVars>>

NextUtilization == CallCalculateCapacityUtilization

SpecUtilization == InitUtilization /\ [][NextUtilization]_vars

\* latest-period generation total of the call's generation records
RECURSIVE LatestGeneration(_, _)
LatestGeneration(data, period) ==
    IF data = <<>> THEN 0
    ELSE (IF Head(data).period = period /\ Head(data).generation # Null
          THEN Head(data).generation ELSE 0) + LatestGeneration(Tail(data), period)

\* C10: with empty generation or summer capacity <= 0 the result is
\* {utilization: null, 0, 0}; in every other case utilization is a number,
\* the latest-period generation over capacity * 30.4375 * 24 rounded to 4
\* decimals.
C10_UtilizationIsNumber ==
    fn = "calculateCapacityUtilization" =>
        LET cap == args.capacityMetrics.totalSummerCapacityMW
            gen == args.generationData
        IN IF gen = <<>> \/ cap <= 0
           THEN ret = [utilization |-> Null, totalGenerationGWh |-> 0,
                       totalConsumptionGWh |-> 0]
           ELSE /\ ret.utilization # Null
                /\ 2 * Abs(ret.utilization * cap * 1461
                           - 10000 * LatestGeneration(gen, gen[1].period)
                               * 2 * CapScale) <= cap * 1461

\* ------------------------------------------------------------------------
\* The data the EIA API holds (what the repository's requests fulfil with)
\* ------------------------------------------------------------------------
\* the respondent code, or "" for the null of an unmapped state
mapStateToRTO(stateId) ==
    CASE stateId = "TX" -> "ERCO"
      [] stateId = "CA" -> "CISO"
      [] stateId = "NY" -> "NYIS"
      [] stateId = "IL" -> "MISO"
      [] stateId = "PA" -> "PJM"
      [] stateId = "MA" -> "ISNE"
      [] stateId = "OK" -> "SWPP"
      [] OTHER -> ""

FetchKinds == {"capacity", "generation", "price", "demand"}

\* TX: solar and gas, volatile prices, hourly demand available
\* CA: solar and wind, no price rows, hourly demand available
\* FL: gas only, every price null, no RTO respondent
\* GU: no generator rows at all
EiaData(region, kind) ==
    CASE kind = "capacity" ->
            (CASE region = "TX" -> <<[energy_source_code |-> "SUN", summer |-> 16000],
                                     [energy_source_code |-> "NG", summer |-> 24000]>>
               [] region = "CA" -> <<[energy_source_code |-> "SUN", summer |-> 16000],
                                     [energy_source_code |-> "WND", summer |-> 16000]>>
               [] region = "FL" -> <<[energy_source_code |-> "NG", summer |-> 24000]>>
               [] OTHER -> <<>>)
      [] kind = "generation" -> GenerationSample
      [] kind = "price" ->
            (CASE region = "TX" -> <<[price |-> 10], [price |-> 30]>>
               [] region = "FL" -> <<[price |-> Null]>>
               [] OTHER -> <<>>)
      [] kind = "demand" ->
            (CASE region = "TX" -> <<[value |-> 1000], [value |-> 3000]>>
               [] region = "CA" -> <<[value |-> 3000], [value |-> Null], [value |-> 3000]>>
               [] OTHER -> <<>>)

\* ------------------------------------------------------------------------
\* findHighPotentialEnergyStorageAreas.execute (index.ts)
\* ------------------------------------------------------------------------
apiKeyErrorMessage == "Authentication failed: No EIA API key provided"

\* the ways a repository request rejects: the HTTP request fails (eiaClient
\* rethrows), or parseAndValidate throws on the response
RejectReasons == {"request", "validation"}

ErrorMessage(kind, reason) ==
    IF reason = "request"
    THEN (CASE kind = "capacity" ->
                "Failed to fetch data from EIA endpoint: /v2/electricity/operating-generator-capacity/data"
            [] kind = "generation" ->
                "Failed to fetch data from EIA endpoint: /v2/electricity/electric-power-operational-data/data"
            [] kind = "price" ->
                "Failed to fetch data from EIA endpoint: /v2/electricity/retail-sales/data"
            [] OTHER ->
                "Failed to fetch data from EIA endpoint: /v2/electricity/rto/region-data/data")
    ELSE (CASE kind = "capacity" ->
                "Invalid response structure from EIA API for getCapacityByFuelType."
            [] kind = "generation" ->
                "Invalid response structure from EIA API for getGenerationByFuelType."
            [] kind = "price" ->
                "Invalid response structure from EIA API for getRetailPrices."
            [] OTHER ->
                "Invalid response structure from EIA API for getRTODemandData.")

Pending == [state |-> "pending"]

Fulfilled(v) == [state |-> "fulfilled", value |-> v]

Rejected(msg) == [state |-> "rejected", reason |-> msg]

\* the state of a region's request right after the task issued it: the
\* hourly request is replaced by Promise.resolve([]) without hourly analysis,
\* and getRTODemandData returns [] at once for a state without respondent
InitialFetch(region, kind, hourly) ==
    IF kind = "demand" /\ (~hourly \/ mapStateToRTO(region) = "")
    THEN "fulfilled" ELSE "pending"

\* the demandData the inner Promise.all delivers
DemandDataOf(region, hourly) ==
    IF hourly /\ mapStateToRTO(region) # "" THEN EiaData(region, "demand") ELSE <<>>

\* regions.map(async (region) => ...) starts every region's task at once
RegionTaskStartedMutant(i, rs) ==
    i \in DOMAIN rs /\ (IF i = 1 THEN TRUE ELSE rs[i - 1].state # "pending")

RegionTaskStarted(i, rs) == i \in DOMAIN rs

\* if (capacityData.length === 0) return { region, error: ... }
EmptyCapacityMutant(capacityData) == FALSE

EmptyCapacity(capacityData) == Len(capacityData) = 0

\* catch (error) { return { region, error: error.message } }
CatchRegionErrorMutant(region, message) == Rejected(message)

CatchRegionErrorSwallowMutant(region, message) == Fulfilled([region |-> region])

CatchRegionError(region, message) ==
    Fulfilled([region |-> region, error |-> message])

\* the outer Promise.all over the region tasks
PromiseAll(rs) ==
    IF \E i \in DOMAIN rs : rs[i].state = "rejected" THEN "rejected"
    ELSE IF \A i \in DOMAIN rs : rs[i].state = "fulfilled" THEN "fulfilled"
    ELSE "pending"

\* the tool call is followed within one instant of the clock
CallInstant == "2024-03-01T00:00:00.000Z"

\* the rest of a region's task once every request has fulfilled
RegionTaskResult(region, hourly) ==
    LET capacityData == EiaData(region, "capacity")
    IN IF EmptyCapacity(capacityData)
       THEN Fulfilled([region |-> region, error |-> "No capacity data found"])
       ELSE Fulfilled([region |-> region,
                       metrics |-> analyzeStorageOpportunity(region, capacityData,
                                       DemandDataOf(region, hourly),
                                       EiaData(region, "generation"),
                                       EiaData(region, "price"), CallInstant)])

RegionAnalyzeCalls(region) ==
    LET capacityData == EiaData(region, "capacity")
    IN IF EmptyCapacity(capacityData) THEN {}
       ELSE {[region |-> region, capacityData |-> capacityData]}

\* (a, b) => b.overall - a.overall as Array.prototype.sort sees it: a NaN
\* result of the comparator counts as 0
SortCompare(a, b) ==
    LET x == a.metrics.storageOpportunityScore.overall
        y == b.metrics.storageOpportunityScore.overall
    IN IF x = NaN \/ y = NaN THEN 0 ELSE y - x

\* Array.prototype.sort of V8 for arrays shorter than 64 elements: the
\* leading run is found (and reversed when it is strictly descending under
\* the comparator) and the remaining elements are put in place by binary
\* insertion.
RECURSIVE RunEnd(_, _, _)
RunEnd(a, idx, isDescending) ==
    IF idx > Len(a) THEN Len(a)
    ELSE LET order == SortCompare(a[idx], a[idx - 1])
         IN IF (isDescending /\ order >= 0) \/ (~isDescending /\ order < 0)
            THEN idx - 1
            ELSE RunEnd(a, idx + 1, isDescending)

ReverseRange(a, n) ==
    [i \in 1..Len(a) |-> IF i <= n THEN a[n + 1 - i] ELSE a[i]]

RECURSIVE BinarySearch(_, _, _, _)
BinarySearch(a, pivot, left, right) ==
    IF left >= right THEN left
    ELSE LET mid == left + ((right - left) \div 2)
         IN IF SortCompare(pivot, a[mid]) < 0
            THEN BinarySearch(a, pivot, left, mid)
            ELSE BinarySearch(a, pivot, mid + 1, right)

RECURSIVE BinaryInsertionSort(_, _)
BinaryInsertionSort(a, start) ==
    IF start > Len(a) THEN a
    ELSE LET pivot == a[start]
             left == BinarySearch(a, pivot, 1, start)
             moved == SubSeq(a, 1, left - 1) \o <<pivot>>
                        \o SubSeq(a, left, start - 1) \o SubSeq(a, start + 1, Len(a))
         IN BinaryInsertionSort(moved, start + 1)

ArraySort(a) ==
    IF Len(a) < 2 THEN a
    ELSE LET isDescending == SortCompare(a[2], a[1]) < 0
             runLength == RunEnd(a, 3, isDescending)
             run == IF isDescending THEN ReverseRange(a, runLength) ELSE a
         IN BinaryInsertionSort(run, runLength + 1)

\* current.score > prev.score, false when either is NaN
GreaterMutant(x, y) == x # NaN /\ y # NaN /\ x >= y

Greater(x, y) == x # NaN /\ y # NaN /\ x > y

identifyPrimaryDriver(scores) ==
    LET drivers == <<[name |-> "Peak Shaving", score |-> scores.peakShavingScore],
                     [name |-> "Renewable Integration",
                      score |-> scores.renewableIntegrationScore],
                     [name |-> "Grid Services", score |-> scores.gridServicesScore],
                     [name |-> "Economic Arbitrage", score |-> scores.economicScore]>>
        pick(prev, current) == IF Greater(current.score, prev.score) THEN current ELSE prev
    IN pick(pick(pick(drivers[1], drivers[2]), drivers[3]), drivers[4]).name

\* JSON.stringify writes NaN as null
JsonNumber(x) == IF x = NaN THEN Null ELSE x

JsonMetrics(metrics) ==
    [metrics EXCEPT
        !.economicOpportunity.priceVolatilityIndex = JsonNumber(@),
        !.storageOpportunityScore =
            [f \in DOMAIN @ |-> JsonNumber(@[f])]]

\* the statements after the outer Promise.all, up to JSON.stringify
AssembleResult(regionList, settled) ==
    LET successfulAnalyses == SelectSeq(settled, LAMBDA r : "metrics" \in DOMAIN r)
        failedAnalyses == SelectSeq(settled, LAMBDA r : "error" \in DOMAIN r)
        sortedResults == ArraySort(successfulAnalyses)
    IN [summary |->
            [analysisDate |-> CallInstant,
             regionsAnalyzed |-> Len(regionList),
             successfulAnalyses |-> Len(successfulAnalyses),
             topOpportunities |->
                [i \in 1..Min(3, Len(sortedResults)) |->
                    [region |-> sortedResults[i].region,
                     overallScore |->
                        JsonNumber(sortedResults[i].metrics.storageOpportunityScore.overall),
                     primaryDriver |->
                        identifyPrimaryDriver(sortedResults[i].metrics.storageOpportunityScore)]]],
        detailedResults |->
            [i \in 1..Len(sortedResults) |-> JsonMetrics(sortedResults[i].metrics)],
        failedRegions |-> failedAnalyses]

\* the call starts: resolve the API key, throw UserError without one,
\* otherwise obtain the client and start one task per region, each of which
\* issues its requests
Execute ==
    /\ toolState = "idle"
    /\ LET eiaApiKey == IF extraArgsApiKey # "" THEN extraArgsApiKey
                        ELSE configEiaApiKey
       IN IF eiaApiKey = ""
          THEN /\ toolState' = "rejected"
               /\ toolError' = apiKeyErrorMessage
               /\ UNCHANGED <<fetch, results>>
          ELSE /\ toolState' = "running"
               /\ fetch' = [i \in 1..Len(regions) |->
                              [k \in FetchKinds |->
                                  InitialFetch(regions[i], k, includeHourlyAnalysis)]]
               /\ results' = [i \in 1..Len(regions) |-> Pending]
               /\ UNCHANGED toolError
    /\ UNCHANGED <<regions, includeHourlyAnalysis, extraArgsApiKey, configEiaApiKey,
                   analyzeCalls, output, hung, harnessVars,
                   managerVars>>

\* a request of region position i fulfils; when it was the last one the
\* inner Promise.all fulfils and the task runs to its return
FetchFulfil(i, k) ==
    /\ toolState = "running"
    /\ RegionTaskStarted(i, results)
    /\ fetch[i][k] = "pending"
    /\ hung # <<i, k>>
    /\ LET mine == [fetch[i] EXCEPT ![k] = "fulfilled"]
       IN /\ fetch' = [fetch EXCEPT ![i] = mine]
          /\ IF \A kk \in FetchKinds : mine[kk] = "fulfilled"
             THEN /\ results' = [results EXCEPT
                        ![i] = RegionTaskResult(regions[i], includeHourlyAnalysis)]
                  /\ analyzeCalls' = analyzeCalls \cup RegionAnalyzeCalls(regions[i])
             ELSE UNCHANGED <<results, analyzeCalls>>
    /\ UNCHANGED <<regions, includeHourlyAnalysis, extraArgsApiKey, configEiaApiKey,
                   toolState, toolError, output, hung, harnessVars,
                   managerVars>>

\* a request of region position i rejects: the inner Promise.all rejects
\* at once and the task's catch block returns; what the region's other
\* requests do afterwards is observed by nobody
FetchReject(i, k, reason) ==
    /\ toolState = "running"
    /\ RegionTaskStarted(i, results)
    /\ fetch[i][k] = "pending"
    /\ hung # <<i, k>>
    /\ fetch' = [fetch EXCEPT ![i] =
                    [kk \in FetchKinds |-> IF kk = k THEN "rejected" ELSE "abandoned"]]
    /\ results' = [results EXCEPT
                    ![i] = CatchRegionError(regions[i], ErrorMessage(k, reason))]
    /\ UNCHANGED <<regions, includeHourlyAnalysis, extraArgsApiKey, configEiaApiKey,
                   toolState, toolError, analyzeCalls, output, hung, harnessVars,
                   managerVars>>

\* the outer Promise.all settles and the call returns or rejects
ReturnResult ==
    /\ toolState = "running"
    /\ PromiseAll(results) # "pending"
    /\ IF PromiseAll(results) = "fulfilled"
       THEN /\ toolState' = "returned"
            /\ output' = AssembleResult(regions,
                            [i \in 1..Len(results) |-> results[i].value])
            /\ UNCHANGED toolError
       ELSE /\ toolState' = "rejected"
            /\ toolError' = "Could not complete energy storage opportunity analysis."
            /\ UNCHANGED output
    /\ UNCHANGED <<regions, includeHourlyAnalysis, extraArgsApiKey, configEiaApiKey,
                   fetch, results, analyzeCalls, hung, harnessVars,
                   managerVars>>

RankerRegionNames == {"TX", "FL", "GU"}

InitRanker ==
    /\ HarnessIdle
    /\ ManagerIdle
    /\ regions \in BoundedSeq(RankerRegionNames, MaxRegions) \ {<<>>}
    /\ includeHourlyAnalysis \in BOOLEAN
    /\ extraArgsApiKey \in {"", "user-key"}
    /\ configEiaApiKey \in {"", "env-key"}
    /\ toolState = "idle"
    /\ toolError = ""
    /\ fetch = <<>>
    /\ results = <<>>
    /\ analyzeCalls = {}
    /\ output = NoRet
    /\ hung = NoHung

NextRanker ==
    \/ Execute
    \/ \E i \in 1..MaxRegions, k \in FetchKinds : FetchFulfil(i, k)
    \/ \E i \in 1..MaxRegions, k \in FetchKinds, reason \in RejectReasons :
            FetchReject(i, k, reason)
    \/ ReturnResult

SpecRanker == InitRanker /\ [][NextRanker]_vars

\* the tool call with one request that never settles
InitHung ==
    /\ HarnessIdle
    /\ ManagerIdle
    /\ regions \in BoundedSeq({"TX", "GU"}, MaxRegions) \ {<<>>}
    /\ includeHourlyAnalysis = FALSE
    /\ extraArgsApiKey = "user-key"
    /\ configEiaApiKey = ""
    /\ toolState = "idle"
    /\ toolError = ""
    /\ fetch = <<>>
    /\ results = <<>>
    /\ analyzeCalls = {}
    /\ output = NoRet
    /\ hung \in {h \in (1..Len(regions)) \X FetchKinds :
                    InitialFetch(regions[h[1]], h[2], includeHourlyAnalysis) = "pending"}

\* a request that is not the hung one does not stay pending for ever: the
\* client's timeout rejects it at the latest (it may fulfil or reject sooner,
\* which disables the timeout)
RequestTimeout(i, k) == \E reason \in RejectReasons : FetchReject(i, k, reason)

SpecHung ==
    /\ InitHung
    /\ [][NextRanker]_vars
    /\ \A i \in 1..MaxRegions, k \in FetchKinds : WF_vars(RequestTimeout(i, k))

\* the tool call with an API key and every request settling in the end
InitSettling ==
    /\ HarnessIdle
    /\ ManagerIdle
    /\ regions \in BoundedSeq({"TX", "GU"}, MaxRegions) \ {<<>>}
    /\ includeHourlyAnalysis \in BOOLEAN
    /\ \/ extraArgsApiKey = "user-key" /\ configEiaApiKey = ""
       \/ extraArgsApiKey = "" /\ configEiaApiKey = "env-key"
    /\ toolState = "idle"
    /\ toolError = ""
    /\ fetch = <<>>
    /\ results = <<>>
    /\ analyzeCalls = {}
    /\ output = NoRet
    /\ hung = NoHung

\* no request stays pending for ever, and the event loop runs every
\* continuation that is ready
SpecSettling ==
    /\ InitSettling
    /\ [][NextRanker]_vars
    /\ WF_vars(Execute)
    /\ WF_vars(ReturnResult)
    /\ \A i \in 1..MaxRegions, k \in FetchKinds : WF_vars(RequestTimeout(i, k))

\* the settled region results handed to the result assembly: every region
\* task has either returned its result or caught a rejected request
InitAssemble ==
    /\ HarnessIdle
    /\ ManagerIdle
    /\ regions \in BoundedSeq(RankerRegionNames \cup {"CA"}, MaxSettled) \ {<<>>}
    /\ includeHourlyAnalysis \in BOOLEAN
    /\ extraArgsApiKey = "user-key"
    /\ configEiaApiKey = ""
    /\ toolState = "running"
    /\ toolError = ""
    /\ \E failed \in SUBSET (1..Len(regions)) :
          /\ fetch = [i \in 1..Len(regions) |->
                        [k \in FetchKinds |->
                            IF i \notin failed THEN "fulfilled"
                            ELSE IF k = "price" THEN "rejected" ELSE "abandoned"]]
          /\ results = [i \in 1..Len(regions) |->
                          IF i \in failed
                          THEN CatchRegionError(regions[i], ErrorMessage("price", "request"))
                          ELSE RegionTaskResult(regions[i], includeHourlyAnalysis)]
          /\ analyzeCalls = UNION {RegionAnalyzeCalls(regions[i]) :
                                      i \in (1..Len(regions)) \ failed}
    /\ output = NoRet
    /\ hung = NoHung

NextAssemble == ReturnResult

SpecAssemble == InitAssemble /\ [][NextAssemble]_vars

\* ------------------------------------------------------------------------
\* Claims about the region ranker
\* ------------------------------------------------------------------------
AllFulfilled(i) == \A k \in FetchKinds : fetch[i][k] = "fulfilled"

\* region position i failed: a request rejected, or no capacity data came back
RegionFailed(i) ==
    \/ \E k \in FetchKinds : fetch[i][k] = "rejected"
    \/ AllFulfilled(i) /\ EiaData(regions[i], "capacity") = <<>>

RegionSucceeded(i) == AllFulfilled(i) /\ EiaData(regions[i], "capacity") # <<>>

CountRegion(entries, r) ==
    Cardinality({j \in 1..Len(entries) : entries[j].region = r})

CountPositions(r, Test(_)) ==
    Cardinality({i \in 1..Len(regions) : regions[i] = r /\ Test(i)})

\* C2: every failing region position is captured as {region, error} with a
\* non-empty error in failedRegions and is absent from detailedResults and
\* from the ranking, every other position appears in detailedResults, and a
\* per-region failure never makes the call reject.
C2_FailuresCapturedPerRegion ==
    /\ toolState = "rejected" => toolError = apiKeyErrorMessage
    /\ toolState = "returned" =>
        /\ \A r \in {regions[i] : i \in 1..Len(regions)} :
              /\ CountRegion(output.failedRegions, r) = CountPositions(r, RegionFailed)
              /\ CountRegion(output.detailedResults, r) = CountPositions(r, RegionSucceeded)
              /\ CountRegion(output.summary.topOpportunities, r)
                    <= CountPositions(r, RegionSucceeded)
        /\ \A j \in 1..Len(output.failedRegions) :
              /\ DOMAIN output.failedRegions[j] = {"region", "error"}
              /\ output.failedRegions[j].error # ""
        /\ Len(output.failedRegions) + Len(output.detailedResults) = Len(regions)

\* C2 witness: the call returned with one position failed by a rejected
\* request and another position scored.
C2_Witness ==
    /\ toolState = "returned"
    /\ \E i, j \in 1..Len(regions) :
          /\ \E k \in FetchKinds : fetch[i][k] = "rejected"
          /\ RegionSucceeded(j)
    /\ Len(output.failedRegions) >= 1
    /\ Len(output.detailedResults) >= 1

\* C3: the result is produced, or the call rejected once running, only when
\* no region task is pending any more.
C3_WaitForAll ==
    (\/ toolState = "returned"
     \/ output # NoRet
     \/ (toolState = "rejected" /\ toolError # apiKeyErrorMessage)) =>
        \A i \in DOMAIN results : results[i].state # "pending"

\* C3 witness: one region task has already failed while another is still
\* pending, and the call has neither returned nor rejected.
C3_Witness ==
    /\ toolState = "running"
    /\ output = NoRet
    /\ \E i, j \in DOMAIN results :
          /\ results[i].state = "fulfilled"
          /\ "error" \in DOMAIN results[i].value
          /\ results[j].state = "pending"

\* C4: while a request of one region hangs, the task of every other region
\* still settles.
C4_HungFetchDelaysOnlyItsRegion ==
    \A i \in 1..MaxRegions :
        (toolState = "running" /\ i \in DOMAIN results /\ hung[1] # i)
            ~> (i \in DOMAIN results /\ results[i].state # "pending")

\* C4 witness: the hung request is still pending, its region's task with it,
\* and the task of another region has settled.
C4_Witness ==
    /\ toolState = "running"
    /\ hung # NoHung
    /\ fetch[hung[1]][hung[2]] = "pending"
    /\ results[hung[1]].state = "pending"
    /\ \E j \in DOMAIN results : j # hung[1] /\ results[j].state = "fulfilled"

\* C5: detailedResults lists the scored regions in non-increasing order of
\* overall (entries whose overall is not a number are not compared), and
\* topOpportunities is the first min(3, n) entries of the same order.
C5_SortedByOverall ==
    toolState = "returned" =>
        LET d == output.detailedResults
            t == output.summary.topOpportunities
            o(i) == d[i].storageOpportunityScore.overall
        IN /\ \A i, j \in 1..Len(d) :
                (i < j /\ o(i) # Null /\ o(j) # Null) => o(i) >= o(j)
           /\ Len(t) = Min(3, Len(d))
           /\ \A i \in 1..Len(t) : t[i].region = d[i].region /\ t[i].overallScore = o(i)

\* C6: analyzeStorageOpportunity is never called with an empty capacity
\* array; a region whose capacity data is empty gets the error "No capacity
\* data found" and is reported in failedRegions.
C6_EmptyCapacityNeverScored ==
    /\ \A c \in analyzeCalls : c.capacityData # <<>>
    /\ \A i \in DOMAIN results :
          (AllFulfilled(i) /\ EiaData(regions[i], "capacity") = <<>>) =>
              /\ results[i] = Fulfilled([region |-> regions[i],
                                         error |-> "No capacity data found"])
              /\ toolState = "returned" =>
                    \E j \in 1..Len(output.failedRegions) :
                        output.failedRegions[j] =
                            [region |-> regions[i], error |-> "No capacity data found"]

\* C6 witness: the call returned and reports a region without capacity data.
C6_Witness ==
    /\ toolState = "returned"
    /\ \E i \in DOMAIN results :
          AllFulfilled(i) /\ EiaData(regions[i], "capacity") = <<>>
    /\ \E j \in 1..Len(output.failedRegions) :
          output.failedRegions[j].error = "No capacity data found"

\* ------------------------------------------------------------------------
\* ProfileAnalyzer.summarizeGeneration (analysis/profileAnalyzer.ts)
\* ------------------------------------------------------------------------
\* an optional field that is absent
Undefined == "<undefined>"

\* generation values are counted in 1/GenScale of their unit, energies in
\* kWh (10^-6 GWh)
GenScale == 10

KWhPerGWh == 1000000

\* String.prototype.toLowerCase on the unit strings of the model
ToLowerCase(str) ==
    CASE str = "Thousand Megawatthours" -> "thousand megawatthours"
      [] str = "GWh" -> "gwh"
      [] str = "MMBtu" -> "mmbtu"
      [] OTHER -> str

\* String.prototype.includes on the lower-case unit strings of the model
Includes(str, needle) ==
    <<str, needle>> \in {<<"thousand megawatthours", "thousand megawatthours">>,
                         <<"thousand megawatthours", "megawatthours">>,
                         <<"megawatthours", "megawatthours">>,
                         <<"gigawatthours", "gigawatthours">>,
                         <<"gwh", "gwh">>}

\* item.fueltypeid ?? item['fuel-type'] ?? item.fueltype ?? 'UNKNOWN'
FuelTypeOf(item) ==
    IF item.fueltypeid # Undefined THEN item.fueltypeid
    ELSE IF item.fuel_type # Undefined THEN item.fuel_type
    ELSE IF item.fueltype # Undefined THEN item.fueltype
    ELSE "UNKNOWN"

\* generationGWh of a record, in kWh
ConvertToGWhMutant(genVal, genUnits) ==
    IF genVal = Null \/ genVal <= 0 THEN 0
    ELSE LET units == ToLowerCase(IF genUnits = Undefined THEN "" ELSE genUnits)
         IN IF Includes(units, "megawatthours")
            THEN (genVal * KWhPerGWh) \div (1000 * GenScale)
            ELSE IF Includes(units, "thousand megawatthours")
            THEN (genVal * KWhPerGWh) \div GenScale
            ELSE IF Includes(units, "gigawatthours") \/ Includes(units, "gwh")
            THEN (genVal * KWhPerGWh) \div GenScale
            ELSE (genVal * KWhPerGWh) \div (1000 * GenScale)

ConvertToGWh(genVal, genUnits) ==
    IF genVal = Null \/ genVal <= 0 THEN 0
    ELSE LET units == ToLowerCase(IF genUnits = Undefined THEN "" ELSE genUnits)
         IN IF Includes(units, "thousand megawatthours")
            THEN (genVal * KWhPerGWh) \div GenScale
            ELSE IF Includes(units, "megawatthours")
            THEN (genVal * KWhPerGWh) \div (1000 * GenScale)
            ELSE IF Includes(units, "gigawatthours") \/ Includes(units, "gwh")
            THEN (genVal * KWhPerGWh) \div GenScale
            ELSE (genVal * KWhPerGWh) \div (1000 * GenScale)

\* if (generationGWh === 0) continue
SkipRecordMutant(generationGWh) == FALSE

SkipRecord(generationGWh) == generationGWh = 0

EmptySummary == [fuelType \in {} |-> 0]

\* the loop over latestData
RECURSIVE AccumulateGeneration(_, _)
AccumulateGeneration(summary, items) ==
    IF items = <<>> THEN summary
    ELSE LET item == Head(items)
             fuelType == FuelTypeOf(item)
             generationGWh == ConvertToGWh(item.generation, item.generation_units)
             entry ==
                 IF fuelType \notin DOMAIN summary
                 THEN [netGenerationGWh |-> 0, reportingUnits |-> 0,
                       description |-> item.fuelTypeDescription]
                 ELSE IF summary[fuelType].description = Undefined
                         /\ item.fuelTypeDescription # Undefined
                 THEN [summary[fuelType] EXCEPT
                          !.description = item.fuelTypeDescription]
                 ELSE summary[fuelType]
             added == [entry EXCEPT
                          !.netGenerationGWh = @ + generationGWh,
                          !.reportingUnits = @ + 1]
         IN IF SkipRecord(generationGWh)
            THEN AccumulateGeneration(summary, Tail(items))
            ELSE AccumulateGeneration(
                    [f \in DOMAIN summary \cup {fuelType} |->
                        IF f = fuelType THEN added ELSE summary[f]],
                    Tail(items))

\* the rounding loop: toFixed(3) of every total; a total that rounds to 0
\* is kept as it is when it is not 0 and its entry is deleted when it is 0
RoundSummary(summary) ==
    LET rounded(f) == ToFixed(summary[f].netGenerationGWh, KWhPerGWh \div 1000)
        kept == {f \in DOMAIN summary :
                    rounded(f) # 0 \/ summary[f].netGenerationGWh # 0}
    IN [f \in kept |->
            IF rounded(f) = 0 THEN summary[f]
            ELSE [summary[f] EXCEPT
                     !.netGenerationGWh = rounded(f) * (KWhPerGWh \div 1000)]]

summarizeGeneration(generationData) ==
    IF Len(generationData) = 0 THEN EmptySummary
    ELSE RoundSummary(AccumulateGeneration(EmptySummary,
                                           LatestPeriodData(generationData)))

\* generation value (in 1/GenScale) and unit string of the records exercised
GenerationAndUnits ==
    {<<50, "thousand megawatthours">>, <<50, "Thousand Megawatthours">>,
     <<50, "megawatthours">>, <<50, "gigawatthours">>, <<50, "GWh">>,
     <<50, "MMBtu">>, <<50, Undefined>>, <<4, "megawatthours">>,
     <<16, "megawatthours">>, <<-50, "thousand megawatthours">>,
     <<0, "megawatthours">>, <<Null, Undefined>>}

SummaryRecords ==
    {[period |-> p, fueltypeid |-> f, fuel_type |-> Undefined, fueltype |-> Undefined,
      fuelTypeDescription |-> IF f = "SUN" /\ gu[1] = 50 THEN "Solar" ELSE Undefined,
      generation |-> gu[1], generation_units |-> gu[2]] :
        p \in {"2024-02", "2024-01"}, f \in {"SUN", "NG"}, gu \in GenerationAndUnits}
    \cup
    {[period |-> p, fueltypeid |-> Undefined, fuel_type |-> Undefined, fueltype |-> ft,
      fuelTypeDescription |-> Undefined,
      generation |-> 50, generation_units |-> "thousand megawatthours"] :
        p \in {"2024-02", "2024-01"}, ft \in {"NG", Undefined}}

InitSummarize ==
    /\ fn = "none"
    /\ ret = NoRet
    /\ RankerIdle
    /\ ManagerIdle
    /\ \E g \in BoundedSeq(SummaryRecords, MaxSummaryRecords) :
            /\ SortedDesc(g)
            /\ args = [generationData |-> g]

CallSummarizeGeneration ==
    /\ fn = "none"
    /\ fn' = "summarizeGeneration"
    /\ ret' = summarizeGeneration(args.generationData)
    /\ UNCHANGED <<args, rankerVars, managerVars>>

NextSummarize == CallSummarizeGeneration

SpecSummarize == InitSummarize /\ [][NextSummarize]_vars

\* ------------------------------------------------------------------------
\* CapacityAnalyzer.calculateRegionalMetrics (analysis/capacityAnalyzer.ts)
\* and ElectricityRepository.getCapacityByFuelType after validation
\* ------------------------------------------------------------------------
calculateRegionalMetrics(region, capacityData) ==
    IF Len(capacityData) = 0 \/ capacityData[1].period = ""
    THEN [region |-> region, latestPeriod |-> "N/A",
          totalSummerCapacityMW |-> 0, totalWinterCapacityMW |-> 0]
    ELSE LET latestPeriodData == LatestPeriodData(capacityData)
         IN [region |-> region,
             latestPeriod |-> capacityData[1].period,
             totalSummerCapacityMW |->
                 SumSeq([i \in 1..Len(latestPeriodData) |->
                            IF latestPeriodData[i].summer = Null THEN 0
                            ELSE latestPeriodData[i].summer]),
             totalWinterCapacityMW |->
                 SumSeq([i \in 1..Len(latestPeriodData) |->
                            IF latestPeriodData[i].winter = Null THEN 0
                            ELSE latestPeriodData[i].winter])]

\* plant.period.substring(0, 4) on the period strings of the model
Substring04(period) ==
    CASE period = "2024-01" -> "2024"
      [] period = "2024-02" -> "2024"
      [] period = "2023-12" -> "2023"
      [] OTHER -> period

\* capacityByFuel[fuelType][...] += plant[...] || 0
AddPlantMutant(group, plant) ==
    [group EXCEPT !.summer = OrZero(plant.summer),
                  !.winter = OrZero(plant.winter)]

AddPlant(group, plant) ==
    [group EXCEPT !.summer = @ + OrZero(plant.summer),
                  !.winter = @ + OrZero(plant.winter)]

\* the loop over plantData; the groups are kept in the order in which
\* their fuel codes are first met
RECURSIVE GroupByFuel(_, _)
GroupByFuel(capacityByFuel, plantData) ==
    IF plantData = <<>> THEN capacityByFuel
    ELSE LET plant == Head(plantData)
             fuelType == plant.energy_source_code
             known == {i \in 1..Len(capacityByFuel) :
                          capacityByFuel[i].energy_source_code = fuelType}
             started ==
                 IF known = {}
                 THEN Append(capacityByFuel,
                             [period |-> Substring04(plant.period),
                              stateid |-> plant.stateid,
                              energy_source_code |-> fuelType,
                              summer |-> 0, winter |-> 0])
                 ELSE capacityByFuel
         IN IF fuelType = "" THEN GroupByFuel(capacityByFuel, Tail(plantData))
            ELSE GroupByFuel(
                    [i \in 1..Len(started) |->
                        IF started[i].energy_source_code = fuelType
                        THEN AddPlant(started[i], plant) ELSE started[i]],
                    Tail(plantData))

\* the value returned for the validated plant records of the response
getCapacityByFuelType(plantData) == GroupByFuel(<<>>, plantData)

\* OperatingCapacityDataSchema: period is any string
PlantPeriods == {"2024-01", "2023-12", ""}

PlantRecords ==
    [period : PlantPeriods, stateid : {"TX"}, energy_source_code : {"SUN", "NG", ""},
     summer : {Null, 1, 200}, winter : {Null, 3}]

\* the request asks for the records sorted by period, newest first
PlantsSortedDesc(data) ==
    LET rank(period) == CASE period = "2024-01" -> 2
                          [] period = "2023-12" -> 1
                          [] OTHER -> 0
    IN \A i \in 1..(Len(data) - 1) : rank(data[i].period) >= rank(data[i + 1].period)

InitPlants ==
    /\ fn = "none"
    /\ ret = NoRet
    /\ RankerIdle
    /\ ManagerIdle
    /\ \E c \in BoundedSeq(PlantRecords, MaxPlantRecords) :
          /\ PlantsSortedDesc(c)
          /\ \/ args = [call |-> "calculateRegionalMetrics",
                        region |-> "TX", capacityData |-> c]
             \/ args = [call |-> "getCapacityByFuelType", plantData |-> c]

CallCalculateRegionalMetrics ==
    /\ fn = "none"
    /\ args.call = "calculateRegionalMetrics"
    /\ fn' = "calculateRegionalMetrics"
    /\ ret' = calculateRegionalMetrics(args.region, args.capacityData)
    /\ UNCHANGED <<args, rankerVars, managerVars>>

CallGetCapacityByFuelType ==
    /\ fn = "none"
    /\ args.call = "getCapacityByFuelType"
    /\ fn' = "getCapacityByFuelType"
    /\ ret' = getCapacityByFuelType(args.plantData)
    /\ UNCHANGED <<args, rankerVars, managerVars>>

NextPlants == CallCalculateRegionalMetrics \/ CallGetCapacityByFuelType

SpecPlants == InitPlants /\ [][NextPlants]_vars

\* ------------------------------------------------------------------------
\* The aggregators and the scorer called repeatedly on the same arrays:
\* args holds the input arrays, ret the calls made so far with what each
\* was given and what it returned
\* ------------------------------------------------------------------------
\* GenerationDataSchema records that every aggregator can read
SharedGenerationRecords ==
    {[period |-> p, fueltypeid |-> f, fuel_type |-> Undefined, fueltype |-> Undefined,
      fuelTypeDescription |-> Undefined, generation |-> g,
      generation_units |-> "megawatthours", consumption |-> Null] :
        p \in {"2024-02", "2024-01"}, f \in {"SUN"}, g \in {Null, 731}}

InitRepeated ==
    /\ fn = "none"
    /\ ret = <<>>
    /\ RankerIdle
    /\ ManagerIdle
    /\ \E g \in BoundedSeq(SharedGenerationRecords, MaxGenRecords),
          d \in BoundedSeq(DemandRecords, 1),
          c \in {<<[energy_source_code |-> "SUN", summer |-> 16000]>>,
                 <<[energy_source_code |-> "SUN", summer |-> 16000],
                   [energy_source_code |-> "NG", summer |-> 24000]>>} :
            /\ SortedDesc(g)
            /\ args = [region |-> "TX",
                       capacityData |-> c,
                       demandData |-> d,
                       generationData |-> g,
                       priceData |-> <<[price |-> 10], [price |-> 30]>>,
                       plantData |->
                          <<[period |-> "2024-01", stateid |-> "TX",
                             energy_source_code |-> "SUN", summer |-> 200, winter |-> Null]>>,
                       capacityMetrics |->
                          [region |-> "TX", latestPeriod |-> "2024-02",
                           totalSummerCapacityMW |-> 200, totalWinterCapacityMW |-> 200]]

\* none of the four functions assigns to its arguments or to anything that
\* outlives the call: each builds new arrays (filter, map) and a new result
Called(name, given, returned) ==
    /\ Len(ret) < MaxCalls
    /\ fn' = name
    /\ ret' = Append(ret, [fn |-> name, given |-> given, returned |-> returned])
    /\ UNCHANGED <<args, rankerVars, managerVars>>

RepeatSummarizeGeneration ==
    Called("summarizeGeneration", args.generationData,
           summarizeGeneration(args.generationData))

RepeatCalculateRegionalMetrics ==
    Called("calculateRegionalMetrics", args.plantData,
           calculateRegionalMetrics(args.region, args.plantData))

RepeatCalculateCapacityUtilization ==
    Called("calculateCapacityUtilization", args.generationData,
           calculateCapacityUtilization(args.capacityMetrics, args.generationData))

RepeatAnalyzeStorageOpportunity ==
    \E now \in Instants :
        Called("analyzeStorageOpportunity",
               <<args.capacityData, args.demandData, args.generationData, args.priceData>>,
               analyzeStorageOpportunity(args.region, args.capacityData, args.demandData,
                                         args.generationData, args.priceData, now))

NextRepeated ==
    \/ RepeatSummarizeGeneration
    \/ RepeatCalculateRegionalMetrics
    \/ RepeatCalculateCapacityUtilization
    \/ RepeatAnalyzeStorageOpportunity

SpecRepeated == InitRepeated /\ [][NextRepeated]_vars

\* ------------------------------------------------------------------------
\* ResourceManager (utils/resource-manager), the tools' use of it
\* (index.ts) and the process signal handlers
\* ------------------------------------------------------------------------
\* config.resourceCleanupInterval, in ticks of the clock
cleanupIntervalMs == 1

NoInfo == [none |-> TRUE]

NoClient == [none |-> TRUE]

\* this.resources.get(key)
ResourcesGet(res, key) ==
    LET at == {i \in 1..Len(res) : res[i].cacheKey = key}
    IN IF at = {} THEN NoInfo ELSE res[CHOOSE i \in at : TRUE]

\* this.resources.set(key, info): an existing key keeps its place
ResourcesSet(res, key, info) ==
    IF ResourcesGet(res, key) = NoInfo THEN Append(res, info)
    ELSE [i \in 1..Len(res) |-> IF res[i].cacheKey = key THEN info ELSE res[i]]

\* this.resources.delete(key)
ResourcesDelete(res, key) == SelectSeq(res, LAMBDA info : info.cacheKey # key)

\* const eiaApiKey = extraArgsApiKey || config.eiaApiKey
ResolveApiKeyMutant(extraArgs, configKey) ==
    IF configKey # "" THEN configKey ELSE extraArgs

ResolveApiKey(extraArgs, configKey) ==
    IF extraArgs # "" THEN extraArgs ELSE configKey

ApiKeys == {"", "key-A", "key-B"}

\* factoryFn is invoked with the key
FactoryInvoked(key) == [factoryCalls EXCEPT ![key] = @ + 1]

\* instances that are inside a call of their cleanupFn
CleanupRunning == {c.instanceId : c \in {d \in cleanups : ~d.settled}}

\* a tool starts: it resolves the API key, throws UserError without one and
\* otherwise calls getResource, which returns the cached client at once or
\* invokes factoryFn and waits for it
ToolExecute(c) ==
    /\ process = Running
    /\ c \in DOMAIN calls
    /\ calls[c].pc = "idle"
    /\ LET eiaKey == ResolveApiKey(calls[c].extraArgsApiKey, configEiaApiKey)
           existingInfo == ResourcesGet(resources, eiaKey)
       IN IF eiaKey = ""
          THEN /\ calls' = [calls EXCEPT ![c].pc = "rejected",
                                         ![c].error = apiKeyErrorMessage]
               /\ UNCHANGED <<resources, factoryCalls>>
          ELSE IF existingInfo # NoInfo
          THEN /\ resources' = ResourcesSet(resources, eiaKey,
                                   [existingInfo EXCEPT !.lastUsed = clock])
               /\ calls' = [calls EXCEPT ![c].pc = "fetching",
                                         ![c].eiaApiKey = eiaKey,
                                         ![c].cached = TRUE,
                                         ![c].apiClient = existingInfo.resource,
                                         ![c].inCleanup =
                                            existingInfo.instanceId \in CleanupRunning]
               /\ UNCHANGED factoryCalls
          ELSE /\ calls' = [calls EXCEPT ![c].pc = "creating",
                                         ![c].eiaApiKey = eiaKey]
               /\ factoryCalls' = FactoryInvoked(eiaKey)
               /\ UNCHANGED resources
    /\ UNCHANGED <<cleanupTimer, clock, sweep, cleanups, removed, requests, process,
                   harnessVars, rankerVars>>

\* factoryFn fulfils: the new client is stored under the key and returned
FactoryFulfil(c) ==
    /\ process = Running
    /\ c \in DOMAIN calls
    /\ calls[c].pc = "creating"
    /\ LET \* uuidv4(): a call creates at most one instance, so its position
           \* is an identifier that no other instance has
           instanceId == c
           newResource == [instanceId |-> instanceId, apiKey |-> calls[c].eiaApiKey]
           newInfo == [resource |-> newResource,
                       lastUsed |-> clock,
                       instanceId |-> instanceId,
                       cacheKey |-> calls[c].eiaApiKey]
       IN /\ resources' = ResourcesSet(resources, calls[c].eiaApiKey, newInfo)
          /\ calls' = [calls EXCEPT ![c].pc = "fetching",
                                    ![c].apiClient = newResource]
    /\ UNCHANGED <<cleanupTimer, clock, sweep, factoryCalls, cleanups, removed,
                   requests, process, harnessVars, rankerVars>>

\* factoryFn rejects: getResource logs the error and throws a new one
FactoryRejectMutant(c) ==
    /\ process = Running
    /\ c \in DOMAIN calls
    /\ calls[c].pc = "creating"
    /\ calls' = [calls EXCEPT ![c].pc = "rejected",
                              ![c].error = "Resource factory function failed"]
    /\ resources' = ResourcesSet(resources, calls[c].eiaApiKey,
                        [resource |-> NoClient, lastUsed |-> clock,
                         instanceId |-> c, cacheKey |-> calls[c].eiaApiKey])
    /\ UNCHANGED <<cleanupTimer, clock, sweep, factoryCalls, cleanups, removed,
                   requests, process, harnessVars, rankerVars>>

FactoryReject(c) ==
    /\ process = Running
    /\ c \in DOMAIN calls
    /\ calls[c].pc = "creating"
    /\ calls' = [calls EXCEPT ![c].pc = "rejected",
                              ![c].error = "Resource factory function failed"]
    /\ UNCHANGED <<resources, cleanupTimer, clock, sweep, factoryCalls, cleanups,
                   removed, requests, process, harnessVars, rankerVars>>

\* the tool issues its EIA request through the client: EiaApiClient.get
\* sends the key the client was constructed with
ClientGet(c) ==
    /\ process = Running
    /\ c \in DOMAIN calls
    /\ calls[c].pc = "fetching"
    /\ requests' = requests \cup {[call |-> c, api_key |-> calls[c].apiClient.apiKey,
                                    instanceId |-> calls[c].apiClient.instanceId]}
    /\ calls' = [calls EXCEPT ![c].pc = "done"]
    /\ UNCHANGED <<resources, cleanupTimer, clock, sweep, factoryCalls, cleanups,
                   removed, process, harnessVars, rankerVars>>

\* time passes
Tick ==
    /\ process = Running
    /\ clock < MaxClock
    /\ clock' = clock + 1
    /\ UNCHANGED <<resources, cleanupTimer, calls, sweep, factoryCalls, cleanups,
                   removed, requests, process, harnessVars, rankerVars>>

\* the second loop of cleanupInactiveResources from the key it has reached
\* to its next await, or to its end
RECURSIVE SweepLoop(_, _, _)
SweepLoop(keysToRemove, res, now) ==
    IF keysToRemove = <<>> THEN SweepIdle
    ELSE LET key == Head(keysToRemove)
             info == ResourcesGet(res, key)
         IN IF info # NoInfo /\ now - info.lastUsed > cleanupIntervalMs
            THEN [pc |-> "cleanupFn", now |-> now, key |-> key, info |-> info,
                  keysToRemove |-> Tail(keysToRemove)]
            ELSE SweepLoop(Tail(keysToRemove), res, now)

\* the cleanupFn invocation that the sweep position sw is waiting for
SweepInvocation(sw) ==
    IF sw.pc = "cleanupFn"
    THEN {[instanceId |-> sw.info.instanceId, by |-> "cleanupInactiveResources",
           settled |-> FALSE,
           inactive |-> clock - sw.info.lastUsed > cleanupIntervalMs]}
    ELSE {}

\* the timer fires: the keys of the inactive entries are collected and the
\* first of them is passed to its cleanupFn
cleanupInactiveResources ==
    /\ process = Running
    /\ cleanupTimer
    /\ sweep = SweepIdle
    /\ LET now == clock
           inactive == SelectSeq(resources,
                           LAMBDA info : now - info.lastUsed > cleanupIntervalMs)
           keysToRemove == [i \in 1..Len(inactive) |-> inactive[i].cacheKey]
           next == SweepLoop(keysToRemove, resources, now)
       IN /\ sweep' = next
          /\ cleanups' = cleanups \cup SweepInvocation(next)
    /\ UNCHANGED <<resources, cleanupTimer, clock, calls, factoryCalls, removed,
                   requests, process, harnessVars, rankerVars>>

Settled(invocations, instanceId, by) ==
    {IF c.instanceId = instanceId /\ c.by = by THEN [c EXCEPT !.settled = TRUE] ELSE c :
        c \in invocations}

\* the cleanupFn of the sweep fulfils: the key is deleted and the loop goes on
CleanupFnFulfil ==
    /\ process = Running
    /\ sweep.pc = "cleanupFn"
    /\ LET deleted == ResourcesGet(resources, sweep.key)
           res == ResourcesDelete(resources, sweep.key)
           next == SweepLoop(sweep.keysToRemove, res, sweep.now)
       IN /\ resources' = res
          /\ removed' = removed \cup
                (IF deleted = NoInfo THEN {}
                 ELSE {[key |-> sweep.key, instanceId |-> deleted.instanceId,
                        inactive |-> clock - deleted.lastUsed > cleanupIntervalMs]})
          /\ sweep' = next
          /\ cleanups' = Settled(cleanups, sweep.info.instanceId,
                                 "cleanupInactiveResources")
                            \cup SweepInvocation(next)
    /\ UNCHANGED <<cleanupTimer, clock, calls, factoryCalls, requests, process,
                   harnessVars, rankerVars>>

\* the cleanupFn of the sweep rejects: the entry stays and the loop goes on
CleanupFnReject ==
    /\ process = Running
    /\ sweep.pc = "cleanupFn"
    /\ LET next == SweepLoop(sweep.keysToRemove, resources, sweep.now)
       IN /\ sweep' = next
          /\ cleanups' = Settled(cleanups, sweep.info.instanceId,
                                 "cleanupInactiveResources")
                            \cup SweepInvocation(next)
    /\ UNCHANGED <<resources, cleanupTimer, clock, calls, factoryCalls, removed,
                   requests, process, harnessVars, rankerVars>>

Signals == {"SIGINT", "SIGTERM", "uncaughtException", "unhandledRejection"}

\* a signal handler runs: cleanup() calls destroyAllNow(), which stops the
\* timer, invokes every cleanupFn and waits for them at its await; cleanup()
\* does not wait for destroyAllNow() and the handler calls process.exit
Signal(sig) ==
    /\ process = Running
    /\ cleanupTimer' = FALSE
    /\ cleanups' = cleanups \cup
            {[instanceId |-> resources[i].instanceId, by |-> "destroyAllNow",
              settled |-> FALSE,
              inactive |-> clock - resources[i].lastUsed > cleanupIntervalMs] :
                i \in 1..Len(resources)}
    /\ process' = [state |-> "exited",
                   code |-> IF sig \in {"SIGINT", "SIGTERM"} THEN 0 ELSE 1]
    /\ UNCHANGED <<resources, clock, calls, sweep, factoryCalls, removed, requests,
                   harnessVars, rankerVars>>

IdleCall(extraArgs) ==
    [pc |-> "idle", extraArgsApiKey |-> extraArgs, eiaApiKey |-> "", cached |-> FALSE,
     apiClient |-> NoClient, inCleanup |-> FALSE, error |-> ""]

\* the module is loaded: the ResourceManager is constructed, which starts
\* its timer; the tool calls to come carry their extraArgs
InitManager ==
    /\ HarnessIdle
    /\ regions = <<>>
    /\ includeHourlyAnalysis = FALSE
    /\ extraArgsApiKey = ""
    /\ configEiaApiKey \in {"", "key-A"}
    /\ toolState = "idle"
    /\ toolError = ""
    /\ fetch = <<>>
    /\ results = <<>>
    /\ analyzeCalls = {}
    /\ output = NoRet
    /\ hung = NoHung
    /\ resources = <<>>
    /\ cleanupTimer = TRUE
    /\ clock = 0
    /\ calls \in [1..MaxToolCalls -> {IdleCall(k) : k \in ApiKeys}]
    /\ sweep = SweepIdle
    /\ factoryCalls = [key \in ApiKeys |-> 0]
    /\ cleanups = {}
    /\ removed = {}
    /\ requests = {}
    /\ process = Running

NextManager ==
    \/ \E c \in 1..MaxToolCalls : ToolExecute(c)
    \/ \E c \in 1..MaxToolCalls : FactoryFulfil(c)
    \/ \E c \in 1..MaxToolCalls : FactoryReject(c)
    \/ \E c \in 1..MaxToolCalls : ClientGet(c)
    \/ Tick
    \/ cleanupInactiveResources
    \/ CleanupFnFulfil
    \/ CleanupFnReject
    \/ \E sig \in Signals : Signal(sig)

SpecManager == InitManager /\ [][NextManager]_vars

\* ------------------------------------------------------------------------
\* The summary of the tool built from given scores
\* ------------------------------------------------------------------------
\* sub-scores as calculateOpportunityScores returns them: whole numbers in
\* 0..100, and NaN for the economic score
SubScores == {0, 45, 100}

ScoredMetrics ==
    {[storageOpportunityScore |->
        [overall |-> Clamp(OverallOf(ps, rs, gs, es)),
         peakShavingScore |-> ps,
         renewableIntegrationScore |-> rs,
         gridServicesScore |-> gs,
         economicScore |-> es],
      economicOpportunity |-> [priceVolatilityIndex |-> IF es = NaN THEN NaN ELSE 0]] :
        ps \in SubScores, rs \in SubScores, gs \in SubScores, es \in SubScores \cup {NaN}}

InitDrivers ==
    /\ fn = "none"
    /\ ret = NoRet
    /\ RankerIdle
    /\ ManagerIdle
    /\ \E scored \in BoundedSeq(ScoredMetrics, MaxScored) \ {<<>>} :
          args = [regions |-> [i \in 1..Len(scored) |-> "TX"],
                  results |-> [i \in 1..Len(scored) |->
                                  [region |-> "TX", metrics |-> scored[i]]]]

\* the statements of execute after the outer Promise.all
CallAssembleResult ==
    /\ fn = "none"
    /\ fn' = "AssembleResult"
    /\ ret' = AssembleResult(args.regions, args.results)
    /\ UNCHANGED <<args, rankerVars, managerVars>>

NextDrivers == CallAssembleResult

SpecDrivers == InitDrivers /\ [][NextDrivers]_vars

\* ------------------------------------------------------------------------
\* Claims about the coefficient of variation and the estimators
\* ------------------------------------------------------------------------
\* the numeric values of an array of records with field f (null dropped)
RECURSIVE NumbersOf(_, _)
NumbersOf(records, f) ==
    IF records = <<>> THEN <<>>
    ELSE (IF Head(records)[f] = Null THEN <<>> ELSE <<Head(records)[f]>>)
            \o NumbersOf(Tail(records), f)

\* the values of field f with null counted as 0
RECURSIVE ZeroedOf(_, _)
ZeroedOf(records, f) ==
    IF records = <<>> THEN <<>>
    ELSE <<IF Head(records)[f] = Null THEN 0 ELSE Head(records)[f]>>
            \o ZeroedOf(Tail(records), f)

RECURSIVE Total(_)
Total(s) == IF s = <<>> THEN 0 ELSE s[1] + Total(Tail(s))

AllEqual(s) == \A i, j \in 1..Len(s) : s[i] = s[j]

Largest(s) == CHOOSE x \in {s[i] : i \in 1..Len(s)} : \A i \in 1..Len(s) : s[i] <= x

\* C11: every coefficient of variation (basicStats, demandVariabilityIndex,
\* priceVolatilityIndex) is a number, is 0 when the mean is 0 and is 0 exactly
\* for a constant series otherwise; basicStats of the empty sequence is all 0.
C11_CovDefined ==
    /\ fn = "basicStats" =>
          /\ args.values = <<>> => ret = [avg |-> 0, stddev |-> 0, cov |-> 0]
          /\ ret.cov # NaN
          /\ Total(args.values) = 0 => ret.cov = 0
          /\ Total(args.values) # 0 => (ret.cov = 0 <=> AllEqual(args.values))
    /\ (fn = "calculateDemandSupplyMetrics"
            /\ NumbersOf(args.demandData, "value") # <<>>) =>
          LET series == NumbersOf(args.demandData, "value")
          IN /\ ret.demandVariabilityIndex # NaN
             /\ Total(series) = 0 => ret.demandVariabilityIndex = 0
             /\ Total(series) # 0 =>
                    (ret.demandVariabilityIndex = 0 <=> AllEqual(series))
    /\ (fn = "calculateEconomicMetrics" /\ args.priceData # <<>>) =>
          LET prices == ZeroedOf(args.priceData, "price")
          IN /\ ret.priceVolatilityIndex # NaN
             /\ Total(prices) = 0 => ret.priceVolatilityIndex = 0
             /\ Total(prices) # 0 =>
                    (ret.priceVolatilityIndex = 0 <=> AllEqual(prices))

\* C12 (as amended): for a price series of length >= 1 the reported
\* averageRetailPriceCentsPerKWh is the arithmetic mean of the prices (null
\* as 0) rounded to two decimals.
C12_AveragePriceRounded ==
    (fn = "calculateEconomicMetrics" /\ args.priceData # <<>>) =>
        LET prices == ZeroedOf(args.priceData, "price")
        IN 2 * Abs(ret.averageRetailPriceCentsPerKWh * Len(prices)
                    - 100 * Total(prices)) <= Len(prices)

\* C12 witness: a call with a null price whose mean has more than two
\* decimals.
C12_Witness ==
    /\ fn = "calculateEconomicMetrics"
    /\ \E i \in 1..Len(args.priceData) : args.priceData[i].price = Null
    /\ (100 * Total(ZeroedOf(args.priceData, "price"))) % Len(args.priceData) # 0
    /\ ret.averageRetailPriceCentsPerKWh > 0

\* C12 (as stated): averageRetailPriceCentsPerKWh equals the arithmetic mean
\* of the prices (null as 0).
C12_AveragePriceExact ==
    (fn = "calculateEconomicMetrics" /\ args.priceData # <<>>) =>
        LET prices == ZeroedOf(args.priceData, "price")
        IN ret.averageRetailPriceCentsPerKWh * Len(prices) = 100 * Total(prices)

\* C13: with an empty price array the economic estimator returns exactly
\* 10 cents/kWh, 0.15, 50 and 50000, whatever its other argument.
C13_EmptyPricesDefaults ==
    (fn = "calculateEconomicMetrics" /\ args.priceData = <<>>) =>
        /\ ret.averageRetailPriceCentsPerKWh = 10 * 100
        /\ ret.priceVolatilityIndex = 150
        /\ ret.peakOffPeakSpread = 50
        /\ ret.estimatedArbitrageRevenue = 50000

\* C13 witness: a call with no prices and demand/supply metrics computed
\* from hourly data.
C13_Witness ==
    /\ fn = "calculateEconomicMetrics"
    /\ args.priceData = <<>>
    /\ args.demandSupply.averageDemandMW = 2000
    /\ ret.estimatedArbitrageRevenue = 50000

\* C20: from an hourly series with at least one numeric value, loadFactor is
\* average / peak (to three decimals), and 0 whenever the peak is 0.
C20_LoadFactor ==
    (fn = "calculateDemandSupplyMetrics"
        /\ NumbersOf(args.demandData, "value") # <<>>) =>
        LET series == NumbersOf(args.demandData, "value")
            peak == Largest(series)
            n == Len(series)
        IN /\ peak = 0 => ret.loadFactor = 0
           /\ peak # 0 =>
                2 * Abs(ret.loadFactor * n * peak - 1000 * Total(series))
                    <= Abs(n * peak)

\* ------------------------------------------------------------------------
\* Claims about calculateGridStabilityMetrics
\* ------------------------------------------------------------------------
\* the number of successive absolute differences of series above 5% of its mean
SignificantDifferences(series) ==
    Cardinality({i \in 1..(Len(series) - 1) :
        20 * Len(series) * (IF series[i + 1] >= series[i]
                            THEN series[i + 1] - series[i]
                            ELSE series[i] - series[i + 1]) > Total(series)})

LargestDifference(series) ==
    CHOOSE x \in {series[i + 1] - series[i] : i \in 1..(Len(series) - 1)}
                    \cup {series[i] - series[i + 1] : i \in 1..(Len(series) - 1)} :
        \A i \in 1..(Len(series) - 1) :
            series[i + 1] - series[i] <= x /\ series[i] - series[i + 1] <= x

StabilityFallback(r) ==
    /\ r.maxHourlyRampMW = 500
    /\ r.rampingFrequency = 4 * 10
    /\ r.frequencyRegulationNeed = 100
    /\ r.spinningReserveRequirement = 300

\* what C14 says of the three outputs other than rampingFrequency
StabilityComputed(r, series) ==
    /\ r.maxHourlyRampMW = LargestDifference(series)
    /\ 2 * Abs(r.frequencyRegulationNeed * 100 * Len(series) - Total(series))
            <= 100 * Len(series)
    /\ 2 * Abs(r.spinningReserveRequirement * 2 - LargestDifference(series)) <= 2

\* C14 (as amended): null hourly values are dropped; with fewer than 2
\* numeric values the result is exactly the fallback 500, 4, 100, 300; with 2
\* or more every output is computed from the series, and rampingFrequency is
\* (significant differences / numeric samples) * 24 rounded to one decimal.
C14_StabilityRounded ==
    fn = "calculateGridStabilityMetrics" =>
        LET series == NumbersOf(args.demandData, "value")
        IN IF Len(series) < 2 THEN StabilityFallback(ret)
           ELSE /\ StabilityComputed(ret, series)
                /\ 2 * Abs(ret.rampingFrequency * Len(series)
                            - 240 * SignificantDifferences(series)) <= Len(series)

\* C14 witness: a call with at least 2 numeric values whose ramping
\* frequency has more than one decimal.
C14_Witness ==
    /\ fn = "calculateGridStabilityMetrics"
    /\ Len(NumbersOf(args.demandData, "value")) >= 2
    /\ (240 * SignificantDifferences(NumbersOf(args.demandData, "value")))
            % Len(NumbersOf(args.demandData, "value")) # 0
    /\ ret.rampingFrequency > 0

\* C14 (as stated): the same with rampingFrequency exactly
\* (significant differences / numeric samples) * 24.
C14_StabilityExact ==
    fn = "calculateGridStabilityMetrics" =>
        LET series == NumbersOf(args.demandData, "value")
        IN IF Len(series) < 2 THEN StabilityFallback(ret)
           ELSE /\ StabilityComputed(ret, series)
                /\ ret.rampingFrequency * Len(series)
                        = 240 * SignificantDifferences(series)

\* ------------------------------------------------------------------------
\* Claims about summarizeGeneration
\* ------------------------------------------------------------------------
PassThroughUnits ==
    {"thousand megawatthours", "Thousand Megawatthours", "gigawatthours", "GWh"}

\* the generation value of a record converted to GWh by its unit string
\* alone (in kWh), whatever its sign; null counts as 0
ConvertedByUnit(r) ==
    IF r.generation = Null THEN 0
    ELSE IF r.generation_units \in PassThroughUnits
    THEN r.generation * (KWhPerGWh \div GenScale)
    ELSE r.generation * (KWhPerGWh \div (1000 * GenScale))

\* reported is total rounded to three decimals, or total itself when that
\* rounding gives 0
ReportedAs(reported, total) ==
    IF 2 * Abs(total) < 1000 THEN reported = total
    ELSE reported % 1000 = 0 /\ 2 * Abs(reported - total) <= 1000

SummaryFuelCodes == {"SUN", "NG", "UNKNOWN"}

\* the positions of the latest-period records of fuel code f that satisfy Test
LatestOfFuel(data, f, Test(_)) ==
    {i \in 1..Len(data) :
        data[i].period = data[1].period /\ FuelTypeOf(data[i]) = f /\ Test(data[i])}

RECURSIVE SumConverted(_, _)
SumConverted(data, positions) ==
    IF positions = {} THEN 0
    ELSE LET i == CHOOSE j \in positions : TRUE
         IN ConvertedByUnit(data[i]) + SumConverted(data, positions \ {i})

PositiveGeneration(r) == r.generation # Null /\ r.generation > 0

NonZeroConverted(r) == ConvertedByUnit(r) # 0

\* C15 (as amended): the latest-period records with a null, zero or negative
\* generation value are skipped; for each fuel code netGenerationGWh is the
\* sum of the converted values of its remaining records, rounded to three
\* decimals (kept unrounded when that would be 0), and reportingUnits is
\* the number of those records; a fuel code without such a record has no
\* entry.
C15_PositiveRecordsAccumulated ==
    fn = "summarizeGeneration" =>
        /\ DOMAIN ret \subseteq SummaryFuelCodes
        /\ \A f \in SummaryFuelCodes :
              LET recs == LatestOfFuel(args.generationData, f, PositiveGeneration)
              IN IF recs = {} THEN f \notin DOMAIN ret
                 ELSE /\ f \in DOMAIN ret
                      /\ ret[f].reportingUnits = Cardinality(recs)
                      /\ ReportedAs(ret[f].netGenerationGWh,
                                    SumConverted(args.generationData, recs))

\* C15 witness: a fuel code with a negative and a positive latest-period
\* record, of which one is counted.
C15_Witness ==
    /\ fn = "summarizeGeneration"
    /\ Len(args.generationData) = 2
    /\ args.generationData[1].generation = -50
    /\ args.generationData[2].period = args.generationData[1].period
    /\ FuelTypeOf(args.generationData[2]) = FuelTypeOf(args.generationData[1])
    /\ FuelTypeOf(args.generationData[1]) \in DOMAIN ret
    /\ ret[FuelTypeOf(args.generationData[1])].reportingUnits = 1

\* C15 (as stated): only the latest-period records whose converted value is
\* exactly 0 are skipped, whatever the sign of the others; netGenerationGWh
\* is the sum of the converted values of the others and reportingUnits their
\* number.
C15_NonZeroRecordsAccumulated ==
    fn = "summarizeGeneration" =>
        \A f \in SummaryFuelCodes :
            LET recs == LatestOfFuel(args.generationData, f, NonZeroConverted)
            IN recs # {} =>
                /\ f \in DOMAIN ret
                /\ ret[f].reportingUnits = Cardinality(recs)
                /\ ret[f].netGenerationGWh = SumConverted(args.generationData, recs)

\* C16 (as amended): a positive generation value is converted by its unit
\* string: thousand megawatthours and gigawatthours (or gwh), in any letter
\* case, pass through, megawatthours and every other or missing unit divide
\* by 1000; a null, zero or negative value converts to 0 whatever the unit.
C16_PositiveValueConverted ==
    (fn = "summarizeGeneration" /\ Len(args.generationData) = 1) =>
        LET r == args.generationData[1]
        IN IF PositiveGeneration(r)
           THEN /\ DOMAIN ret = {FuelTypeOf(r)}
                /\ ReportedAs(ret[FuelTypeOf(r)].netGenerationGWh, ConvertedByUnit(r))
           ELSE ret = EmptySummary

\* C16 witness: a record in thousand megawatthours is passed through.
C16_Witness ==
    /\ fn = "summarizeGeneration"
    /\ Len(args.generationData) = 1
    /\ args.generationData[1].generation = 50
    /\ args.generationData[1].generation_units = "Thousand Megawatthours"
    /\ ret[FuelTypeOf(args.generationData[1])].netGenerationGWh
            = 5 * KWhPerGWh

\* C16 (as stated): the generation value of a record, whatever its sign, is
\* converted by its unit string.
C16_ValueConverted ==
    (fn = "summarizeGeneration" /\ Len(args.generationData) = 1) =>
        LET r == args.generationData[1]
        IN IF ConvertedByUnit(r) # 0
           THEN /\ DOMAIN ret = {FuelTypeOf(r)}
                /\ ReportedAs(ret[FuelTypeOf(r)].netGenerationGWh, ConvertedByUnit(r))
           ELSE ret = EmptySummary

\* the records of data whose period is that of the first record
RECURSIVE OfPeriod(_, _)
OfPeriod(data, period) ==
    IF data = <<>> THEN <<>>
    ELSE (IF Head(data).period = period THEN <<Head(data)>> ELSE <<>>)
            \o OfPeriod(Tail(data), period)

\* C17: the output is the output for the records of the first record's
\* period alone, only fuel codes of those records have an entry, and the
\* empty array gives the empty mapping.
C17_OnlyLatestPeriodCounts ==
    fn = "summarizeGeneration" =>
        IF args.generationData = <<>> THEN ret = EmptySummary
        ELSE /\ ret = summarizeGeneration(
                        OfPeriod(args.generationData, args.generationData[1].period))
             /\ \A f \in DOMAIN ret :
                    \E i \in 1..Len(args.generationData) :
                        /\ args.generationData[i].period = args.generationData[1].period
                        /\ FuelTypeOf(args.generationData[i]) = f

\* C17 witness: a call with positive records of the same fuel code in the
\* latest and in an older period, of which only the latest is counted.
C17_Witness ==
    /\ fn = "summarizeGeneration"
    /\ Len(args.generationData) = 2
    /\ args.generationData[2].period # args.generationData[1].period
    /\ args.generationData[1].generation = 50
    /\ args.generationData[2].generation = 50
    /\ FuelTypeOf(args.generationData[2]) = FuelTypeOf(args.generationData[1])
    /\ ret[FuelTypeOf(args.generationData[1])].reportingUnits = 1

\* ------------------------------------------------------------------------
\* Claims about calculateRegionalMetrics and getCapacityByFuelType
\* ------------------------------------------------------------------------
\* the sum of field f (null as 0) over the records of data at the positions idx
RECURSIVE SumWhere(_, _, _)
SumWhere(data, f, idx) ==
    IF idx = {} THEN 0
    ELSE LET i == CHOOSE k \in idx : TRUE
         IN (IF data[i][f] = Null THEN 0 ELSE data[i][f])
                + SumWhere(data, f, idx \ {i})

\* the result for no data
NoRegionalData ==
    [region |-> args.region, latestPeriod |-> "N/A",
     totalSummerCapacityMW |-> 0, totalWinterCapacityMW |-> 0]

\* C18: for a non-empty array whose first record has a non-empty period,
\* latestPeriod is that period and the two totals are the sums of the summer
\* and winter capacities (null as 0) over exactly the records of that period;
\* for the empty array, and for an array whose first record has an empty
\* period, the result is "N/A" with both totals 0.
C18_RegionalMetricsOfNamedPeriod ==
    fn = "calculateRegionalMetrics" =>
        IF args.capacityData = <<>> THEN ret = NoRegionalData
        ELSE IF args.capacityData[1].period = "" THEN ret = NoRegionalData
        ELSE LET InLatest == {i \in 1..Len(args.capacityData) :
                                 args.capacityData[i].period = args.capacityData[1].period}
             IN /\ ret.latestPeriod = args.capacityData[1].period
                /\ ret.region = args.region
                /\ ret.totalSummerCapacityMW = SumWhere(args.capacityData, "summer", InLatest)
                /\ ret.totalWinterCapacityMW = SumWhere(args.capacityData, "winter", InLatest)

\* C18 as stated: for every non-empty array latestPeriod is the first
\* record's period and the totals are the sums over the records of that
\* period; for the empty array the result is "N/A" with both totals 0.
C18_RegionalMetrics ==
    fn = "calculateRegionalMetrics" =>
        IF args.capacityData = <<>>
        THEN ret = [region |-> args.region, latestPeriod |-> "N/A",
                    totalSummerCapacityMW |-> 0, totalWinterCapacityMW |-> 0]
        ELSE LET InLatest == {i \in 1..Len(args.capacityData) :
                                 args.capacityData[i].period = args.capacityData[1].period}
             IN /\ ret.latestPeriod = args.capacityData[1].period
                /\ ret.totalSummerCapacityMW = SumWhere(args.capacityData, "summer", InLatest)
                /\ ret.totalWinterCapacityMW = SumWhere(args.capacityData, "winter", InLatest)

\* C18 witness: a call whose second record is of an older period and has
\* capacities that are not counted.
C18_Witness ==
    /\ fn = "calculateRegionalMetrics"
    /\ Len(args.capacityData) = 2
    /\ args.capacityData[1].summer = Null
    /\ args.capacityData[1].period = "2024-01"
    /\ args.capacityData[2].period = "2023-12"
    /\ args.capacityData[2].summer = 200
    /\ ret.totalSummerCapacityMW = 0
    /\ ret.totalWinterCapacityMW = 3

FirstFour(period) ==
    IF period \in {"2024-01", "2024-02"} THEN "2024"
    ELSE IF period = "2023-12" THEN "2023" ELSE ""

\* C19: one record per distinct non-empty fuel code of the plant records of
\* all periods, with the summer and winter sums (null as 0) over every plant
\* record of that code and the first 4 characters of the period of the first
\* plant record of that code.
C19_GroupedByFuelAcrossPeriods ==
    fn = "getCapacityByFuelType" =>
        LET plants == args.plantData
            codes == {plants[i].energy_source_code : i \in 1..Len(plants)} \ {""}
            Coded == {i \in 1..Len(plants) : plants[i].energy_source_code # ""}
        IN /\ Len(ret) = Cardinality(codes)
           /\ {ret[j].energy_source_code : j \in 1..Len(ret)} = codes
           /\ \A j \in 1..Len(ret) :
                LET OfCode == {i \in 1..Len(plants) :
                                  plants[i].energy_source_code = ret[j].energy_source_code}
                    first == CHOOSE i \in OfCode : \A k \in OfCode : i <= k
                IN /\ ret[j].summer = SumWhere(plants, "summer", OfCode)
                   /\ ret[j].winter = SumWhere(plants, "winter", OfCode)
                   /\ ret[j].period = FirstFour(plants[first].period)
           /\ SumWhere(ret, "summer", 1..Len(ret)) = SumWhere(plants, "summer", Coded)
           /\ SumWhere(ret, "winter", 1..Len(ret)) = SumWhere(plants, "winter", Coded)

\* C19 witness: two plant records of one fuel code in different years are
\* summed into one group that carries the year of the first.
C19_Witness ==
    /\ fn = "getCapacityByFuelType"
    /\ Len(args.plantData) = 2
    /\ args.plantData[1].period = "2024-01"
    /\ args.plantData[2].period = "2023-12"
    /\ args.plantData[1].energy_source_code = "SUN"
    /\ args.plantData[2].energy_source_code = "SUN"
    /\ args.plantData[1].summer = 200
    /\ args.plantData[2].summer = 1
    /\ Len(ret) = 1
    /\ ret[1].summer = 201
    /\ ret[1].period = "2024"

\* ------------------------------------------------------------------------
\* Claims about repeated calls
\* ------------------------------------------------------------------------
\* what call i of the log was given, as the input arrays are now
GivenNow(i) ==
    CASE ret[i].fn = "summarizeGeneration" -> args.generationData
      [] ret[i].fn = "calculateCapacityUtilization" -> args.generationData
      [] ret[i].fn = "calculateRegionalMetrics" -> args.plantData
      [] OTHER -> <<args.capacityData, args.demandData, args.generationData,
                    args.priceData>>

\* no call has changed the arrays that a call was given
InputsUntouched ==
    \A i \in 1..Len(ret) : ret[i].given = GivenNow(i)

WithoutDate(returned) ==
    IF "analysisDate" \in DOMAIN returned
    THEN [returned EXCEPT !.analysisDate = ""] ELSE returned

FactoryError == "Resource factory function failed"

\* the calls that have a client for the key
Holders(key) ==
    {c \in DOMAIN calls : calls[c].eiaApiKey = key /\ calls[c].apiClient # NoClient}

\* the calls whose factoryFn failed for the key
FailedCreations(key) ==
    {c \in DOMAIN calls : calls[c].eiaApiKey = key /\ calls[c].error = FactoryError}

\* C22: while a key stays cached there is one resource instance for it: the
\* factory has run once for the key (not counting runs that failed) and all
\* callers, concurrent ones included, have received the same instance.
C22_OneInstancePerKey ==
    \A key \in ApiKeys \ {""} :
        (\A r \in removed : r.key # key) =>
            /\ factoryCalls[key] - Cardinality(FailedCreations(key)) <= 1
            /\ \A c, d \in Holders(key) : calls[c].apiClient = calls[d].apiClient

\* C23: the sweep passes to cleanupFn and removes only entries that have
\* been inactive for longer than the interval, and no caller is handed a
\* resource that is inside its cleanupFn.
C23_SweepSparesActiveResources ==
    /\ \A cl \in cleanups : cl.by = "cleanupInactiveResources" => cl.inactive
    /\ \A r \in removed : r.inactive
    /\ \A c \in DOMAIN calls : ~calls[c].inCleanup

\* C24: when process.exit is called the timer is stopped, the cleanupFn of
\* every cached resource has been invoked and has completed, and the cache
\* is empty.
C24_AllDestroyedBeforeExit ==
    process.state = "exited" =>
        /\ ~cleanupTimer
        /\ \A i \in 1..Len(resources) :
              \E cl \in cleanups : /\ cl.instanceId = resources[i].instanceId
                                   /\ cl.by = "destroyAllNow"
                                   /\ cl.settled
        /\ resources = <<>>

\* the key the claim expects a call to use
ExpectedKey(c) ==
    IF calls[c].extraArgsApiKey # "" THEN calls[c].extraArgsApiKey ELSE configEiaApiKey

\* C25: a tool call uses extraArgs.apiKey when present and the environment
\* key otherwise; without either it throws UserError(apiKeyErrorMessage),
\* creates no resource and issues no request; with a key K each of its
\* requests is sent by a client constructed with K, and every cached client
\* is cached under the key it was constructed with.
C25_RequestsUseResolvedKey ==
    /\ \A c \in DOMAIN calls :
          calls[c].pc # "idle" =>
              IF ExpectedKey(c) = ""
              THEN /\ calls[c].pc = "rejected"
                   /\ calls[c].error = apiKeyErrorMessage
                   /\ calls[c].apiClient = NoClient
                   /\ \A r \in requests : r.call # c
                   /\ \A i \in 1..Len(resources) : resources[i].instanceId # c
              ELSE /\ calls[c].eiaApiKey = ExpectedKey(c)
                   /\ calls[c].error # apiKeyErrorMessage
                   /\ calls[c].apiClient # NoClient =>
                          calls[c].apiClient.apiKey = ExpectedKey(c)
                   /\ \A r \in requests : r.call = c => r.api_key = ExpectedKey(c)
    /\ \A i \in 1..Len(resources) : resources[i].resource.apiKey = resources[i].cacheKey
    /\ (\A c \in DOMAIN calls : ExpectedKey(c) = "") =>
          /\ resources = <<>>
          /\ requests = {}
          /\ \A key \in ApiKeys : factoryCalls[key] = 0

\* C25 witness: with the environment key set, a call without extraArgs.apiKey
\* and a call with another key have both sent their request.
C25_Witness ==
    /\ configEiaApiKey = "key-A"
    /\ calls[1].extraArgsApiKey = ""
    /\ calls[2].extraArgsApiKey = "key-B"
    /\ [call |-> 1, api_key |-> "key-A", instanceId |-> 1] \in requests
    /\ [call |-> 2, api_key |-> "key-B", instanceId |-> 2] \in requests
    /\ Len(resources) = 2

\* a call whose factoryFn has failed has left nothing in the cache, and
\* every call that did not find its key cached has invoked factoryFn
FailureLeavesNoEntry ==
    /\ \A i \in 1..Len(resources) : calls[resources[i].instanceId].error # FactoryError
    /\ \A key \in ApiKeys \ {""} :
          factoryCalls[key] =
              Cardinality({c \in DOMAIN calls :
                              /\ calls[c].eiaApiKey = key
                              /\ ~calls[c].cached})

\* the step in which the factoryFn of a call fails changes no cache entry
\* and rejects the call with an error
FailureStep ==
    \A c \in DOMAIN calls :
        (calls[c].pc = "creating" /\ calls'[c].pc = "rejected") =>
            /\ resources' = resources
            /\ calls'[c].error = FactoryError

\* C30: when factoryFn fails the call rejects with an error and the cache
\* is as it was: no entry for the key is stored, the other entries are
\* untouched, and a later getResource for the key invokes factoryFn again.
C30_FactoryFailureLeavesCache == []FailureLeavesNoEntry /\ [][FailureStep]_vars

\* C30 witness: the factoryFn of the first call failed, and the second call
\* for the same key invoked factoryFn again and has its client cached, while
\* the entry of the other key is still there.
C30_Witness ==
    /\ calls[1].error = FactoryError
    /\ calls[2].eiaApiKey = calls[1].eiaApiKey
    /\ calls[2].pc = "fetching"
    /\ factoryCalls[calls[1].eiaApiKey] = 2
    /\ Len(resources) = 1
    /\ resources[1].instanceId = 2

\* ------------------------------------------------------------------------
\* Claims about the summary and the fallback scores
\* ------------------------------------------------------------------------
DriverOrder == <<"Peak Shaving", "Renewable Integration", "Grid Services",
                 "Economic Arbitrage">>

\* the reported sub-scores in the order of DriverOrder
ReportedSubScores(score) ==
    <<score.peakShavingScore, score.renewableIntegrationScore,
      score.gridServicesScore, score.economicScore>>

\* C26: the primaryDriver of each entry of topOpportunities names a
\* sub-score that no reported sub-score exceeds, and of the sub-scores with
\* that value the earliest in the fixed order (a sub-score reported as null
\* is no number and is not compared).
C26_PrimaryDriverIsFirstMaximum ==
    fn = "AssembleResult" =>
        \A i \in 1..Len(ret.summary.topOpportunities) :
            LET sub == ReportedSubScores(ret.detailedResults[i].storageOpportunityScore)
                named == CHOOSE k \in 1..4 :
                            DriverOrder[k] = ret.summary.topOpportunities[i].primaryDriver
            IN /\ ret.summary.topOpportunities[i].primaryDriver
                    \in {DriverOrder[k] : k \in 1..4}
               /\ sub[named] # Null
               /\ \A k \in 1..4 : sub[k] # Null => sub[k] <= sub[named]
               /\ \A k \in 1..(named - 1) : sub[k] # sub[named]

\* C26 witness: two sub-scores tie for the maximum and the earlier is named.
C26_Witness ==
    /\ fn = "AssembleResult"
    /\ ret.detailedResults[1].storageOpportunityScore.peakShavingScore = 45
    /\ ret.detailedResults[1].storageOpportunityScore.renewableIntegrationScore = 100
    /\ ret.detailedResults[1].storageOpportunityScore.gridServicesScore = 0
    /\ ret.detailedResults[1].storageOpportunityScore.economicScore = 100
    /\ ret.summary.topOpportunities[1].primaryDriver = "Renewable Integration"

\* C27: the output of a returned batch partitions the input positions: the
\* positions of every region name are split between detailedResults and
\* failedRegions, and successfulAnalyses + length(failedRegions) =
\* regionsAnalyzed = length of the input array.
C27_OutputPartitionsInput ==
    toolState = "returned" =>
        /\ output.summary.regionsAnalyzed = Len(regions)
        /\ output.summary.successfulAnalyses = Len(output.detailedResults)
        /\ output.summary.successfulAnalyses + Len(output.failedRegions)
                = output.summary.regionsAnalyzed
        /\ \A r \in {regions[i] : i \in 1..Len(regions)} :
              CountRegion(output.detailedResults, r) + CountRegion(output.failedRegions, r)
                = Cardinality({i \in 1..Len(regions) : regions[i] = r})
        /\ \A i \in 1..Len(regions) : RegionFailed(i) # RegionSucceeded(i)

\* C27 witness: a batch names the same region twice; one position failed by
\* a rejected request and the other was scored.
C27_Witness ==
    /\ toolState = "returned"
    /\ regions = <<"TX", "TX">>
    /\ Len(output.detailedResults) = 1
    /\ Len(output.failedRegions) = 1
    /\ output.summary.successfulAnalyses = 1
    /\ output.summary.regionsAnalyzed = 2

\* C29: with an API key, when every request settles in the end the call
\* returns in the end a result with summary, detailedResults and
\* failedRegions; it never rejects.
C29_SettledCallReturns ==
    ResolveApiKey(extraArgsApiKey, configEiaApiKey) # "" =>
        /\ <>(toolState = "returned"
                /\ DOMAIN output = {"summary", "detailedResults", "failedRegions"})
        /\ [](toolState # "rejected")

\* C29 witness: the call has returned although every region failed.
C29_Witness ==
    /\ toolState = "returned"
    /\ Len(regions) = 2
    /\ \A i \in 1..Len(regions) : \E k \in FetchKinds : fetch[i][k] = "rejected"
    /\ Len(output.failedRegions) = 2
    /\ output.detailedResults = <<>>

\* C28: when the scorer gets no hourly demand value (includeHourlyAnalysis
\* false, a state without RTO mapping, or a series without a numeric value)
\* the demand/supply metrics fall back to loadFactor 0.7 and
\* demandVariabilityIndex 0.15 and the stability metrics to their fallback
\* constants, so peakShavingScore is 45 and gridServicesScore is 38 whatever
\* the capacity, generation and price data.
C28_NoDemandScores ==
    /\ \A region \in RankerRegionNames \cup {"CA"} :
          /\ DemandDataOf(region, FALSE) = <<>>
          /\ mapStateToRTO(region) = "" => DemandDataOf(region, TRUE) = <<>>
    /\ (/\ fn = "analyzeStorageOpportunity"
        /\ \A i \in 1..Len(args.demandData) : args.demandData[i].value = Null) =>
            /\ ret.demandSupplyMetrics.loadFactor = 700
            /\ ret.demandSupplyMetrics.demandVariabilityIndex = 150
            /\ StabilityFallback(ret.gridStability)
            /\ ret.storageOpportunityScore.peakShavingScore = 45
            /\ ret.storageOpportunityScore.gridServicesScore = 38

\* C28 witness: the hourly series has rows but no numeric value, and a
\* region with two fuels and two prices gets the fallback scores.
C28_Witness ==
    /\ fn = "analyzeStorageOpportunity"
    /\ args.demandData = <<[value |-> Null], [value |-> Null]>>
    /\ Len(args.capacityData) = 2
    /\ Len(args.priceData) = 2
    /\ Len(args.generationData) = 2
    /\ ret.storageOpportunityScore.peakShavingScore = 45
    /\ ret.storageOpportunityScore.gridServicesScore = 38
    /\ ret.storageOpportunityScore.renewableIntegrationScore # 45

====
